---- MODULE Spec2Model ----
(***************************************************************************)
(* Model of the SQL query-construction engine of node-azure-rest-api       *)
(* (src/src/sql/sql.ts): the predicate compiler toGroupParametersSql, the  *)
(* parameter binder toGroupParametersKeyValue / getParams, the             *)
(* column-shape grouper and the four statement builders.                   *)
(* It also models the data-access object built on them                     *)
(* (src/src/lib/base.dao.ts): hooks, validation, parameter binding, the    *)
(* four methods up to the execution backend, and fetchWithRelations.       *)
(* Last come the Database singleton (src/src/lib/db.ts): getPool with its  *)
(* retries and withTransaction, step by step between their awaits, and the *)
(* status handler that reports the database and blob checks.               *)
(*                                                                         *)
(* SQL text is kept as a syntax tree whose leaves are the column names and *)
(* the @placeholder names; the names themselves are built as strings, the  *)
(* way the template literals of the source build them.                     *)
(***************************************************************************)
EXTENDS Integers, Sequences, FiniteSets, TLC

VARIABLES input, opts, call, out, hooks, registered, backend, entity, db, fetch,
          pool, connected, proc

\* the data-access object: its hook table, the registerHook calls made on it
\* and the queries its execution backend has received
daoVars == <<hooks, registered, backend>>

\* relation resolution: the foreign keys of the entity, the rows the backend
\* holds, and the fetchWithRelations call under way
relVars == <<entity, db, fetch>>

\* the Database singleton of lib/db.ts: the stored pool, whether that pool is
\* connected, and each caller's position in the call it is making
poolVars == <<pool, connected, proc>>

vars == <<input, opts, call, out, hooks, registered, backend, entity, db, fetch,
          pool, connected, proc>>

(***************************************************************************)
(* Bounds of the model.                                                    *)
(***************************************************************************)
MaxVal == 2     \* scalar values are 1..MaxVal
MaxLen == 4     \* longest value array of a field
MaxChunk == 2   \* largest explicit inChunkSize option
MaxItems == 2   \* longest batch of items
MaxPage == 1    \* largest skip and take
MaxBatch == 2   \* longest batch handed to the data-access object
MaxRegister == 2  \* most registerHook calls on one object
MaxRows == 2    \* most main rows of a fetchWithRelations call

(***************************************************************************)
(* Program constants and encodings.                                        *)
(***************************************************************************)
Nil == 0                    \* null / undefined (lodash isNil)
DEFAULT_IN_CHUNK == 800
DEFAULT_TAKE == 100
DEFAULT_LIKE_MODE == "raw"
DEFAULT_UNKNOWN_COLUMN == "ignore"

Values == 1..MaxVal
Undefined == ""            \* an absent string option or FieldQuery operator

Operators == {"=", "!=", "<", "<=", ">", ">=", "LIKE", "IN", "NOT IN", "BETWEEN"}

TableName == "t"
\* the column whitelist of the direct calls; "zz" is not in it
TableColumns == <<"id", "a", "a_0">>
\* JavaScript string order of the field names used by the model
SortedKeys == <<"a", "a_0", "b", "c", "id", "zz">>

(***************************************************************************)
(* Generic helpers (lodash).                                               *)
(***************************************************************************)
Min(S) == CHOOSE x \in S : \A y \in S : x <= y
Max(S) == CHOOSE x \in S : \A y \in S : x >= y

InSeq(x, s) == \E k \in 1..Len(s) : s[k] = x

RECURSIVE Flatten(_)
Flatten(ss) == IF Len(ss) = 0 THEN <<>> ELSE Head(ss) \o Flatten(Tail(ss))

RECURSIVE SortedSeq(_)
SortedSeq(S) == IF S = {} THEN <<>> ELSE <<Min(S)>> \o SortedSeq(S \ {Min(S)})

\* lodash chunk(array, size) for size >= 1
\* a chunking that keeps the full chunks only
ChunkWholeOnly(s, n) ==
  [c \in 1..(Len(s) \div n) |-> SubSeq(s, (c - 1) * n + 1, c * n)]

Chunk(s, n) ==
  [c \in 1..((Len(s) + n - 1) \div n) |->
     SubSeq(s, (c - 1) * n + 1, IF c * n < Len(s) THEN c * n ELSE Len(s))]

\* every occurrence kept
KeepDuplicates(s) == s

\* lodash uniq: first occurrences, in order
Uniq(s) == LET keep == {k \in 1..Len(s) : \A j \in 1..(k - 1) : s[j] # s[k]}
               ks == SortedSeq(keep)
           IN [k \in 1..Len(ks) |-> s[ks[k]]]

\* ensureArray on the model's input record: a single object becomes a
\* one-element list, a list stays itself
EnsureArray(inp) == inp.items

\* lodash size(entityParameters): keys of a single object, length of a list
SizeOf(inp) == IF inp.single THEN Len(inp.items[1]) ELSE Len(inp.items)

(***************************************************************************)
(* Errors (SqlError).                                                      *)
(***************************************************************************)
NoError == [kind |-> "none", table |-> "", action |-> "", item |-> ""]

invalidBetween(tableName, action) ==
  [kind |-> "InvalidBetween", table |-> tableName, action |-> action, item |-> ""]

unknownColumn(tableName, action, item) ==
  [kind |-> "UnknownColumn", table |-> tableName, action |-> action, item |-> item]

invalidOrderBy(tableName, action) ==
  [kind |-> "InvalidOrderBy", table |-> tableName, action |-> action, item |-> "item"]

invalidOrderByColumn(tableName, action) ==
  [kind |-> "InvalidOrderBy", table |-> tableName, action |-> action, item |-> "column"]

Ok(pairs) == [err |-> NoError, pairs |-> pairs]
Throw(e) == [err |-> e, pairs |-> <<>>]
Failed(r) == r.err.kind # "none"

(***************************************************************************)
(* Entity parameters.  A field is one key of an item: a raw value (scalar  *)
(* or array) or a FieldQuery {operator, value}.  An item is the sequence   *)
(* of its fields in key order, a batch the sequence of its items.          *)
(***************************************************************************)
Field(key, fq, operator, isArr, vals) ==
  [key |-> key, fq |-> fq, operator |-> operator, isArr |-> isArr, vals |-> vals]

RawScalar(key, v) == Field(key, FALSE, Undefined, FALSE, <<v>>)
RawArray(key, vs) == Field(key, FALSE, Undefined, TRUE, vs)

ItemKeys(item) == {item[j].key : j \in 1..Len(item)}

\* item[key] (Nil-valued when the key is absent)
ItemField(item, key) == item[CHOOSE j \in 1..Len(item) : item[j].key = key]

(***************************************************************************)
(* mapEntityItems: every field of every item, in order, through a          *)
(* callback; the results are flattened.  A callback that throws aborts the *)
(* traversal, so the first failure in traversal order is the outcome.      *)
(* The callers apply their callback to the arguments listed here.          *)
(***************************************************************************)
FieldOperator(f) == IF f.fq /\ f.operator # Undefined THEN f.operator ELSE "="

\* the callback's arguments at every field of every item, in traversal order
mapEntityItems(items) ==
  Flatten([i \in 1..Len(items) |->
             [j \in 1..Len(items[i]) |->
                [itemValue |-> [isArr |-> items[i][j].isArr, vals |-> items[i][j].vals],
                 itemKey |-> items[i][j].key,
                 operator |-> FieldOperator(items[i][j]),
                 itemIndex |-> i - 1]]])

\* the callback results pushed onto one flat list, or the first throw
CallbackResults(results) ==
  LET failed == {k \in 1..Len(results) : Failed(results[k])}
  IN IF failed # {}
       THEN Throw(results[Min(failed)].err)
       ELSE Ok(Flatten([k \in 1..Len(results) |-> results[k].pairs]))

(***************************************************************************)
(* SQL fragments.  ph holds the @placeholder names: one inner sequence per *)
(* parenthesised list.                                                     *)
(***************************************************************************)
Frag(kind, col, op, ph, glue, esc) ==
  [kind |-> kind, col |-> col, op |-> op, ph |-> ph, glue |-> glue, esc |-> esc]

AlwaysTrue == Frag("const", "", "1=1", <<>>, "", "")
AlwaysFalse == Frag("const", "", "1=0", <<>>, "", "")

GroupKey(keyStr, itemIndex) == keyStr \o "_" \o ToString(itemIndex)

IsNegated(operator) == operator = "!=" \/ operator = "NOT IN"

\* every chunk list joined with OR
GlueAlwaysOr(operator) == "OR"

InGlue(operator) == IF operator = "NOT IN" THEN "AND" ELSE "OR"

ChunkSizeOf(o) == IF o.inChunkSize = Nil THEN DEFAULT_IN_CHUNK ELSE o.inChunkSize

\* an arity check that lets longer arrays through
BetweenAtLeastTwo(vals) == Len(vals) >= 2

\* size(itemValue) === 2, the arity both BETWEEN checks ask for
BetweenArityOk(vals) == Len(vals) = 2

\* an empty array as always false whatever the operator
EmptyArrayAlwaysFalse(operator) == AlwaysFalse

\* the fragment of an empty array
EmptyArrayFragment(operator) == IF IsNegated(operator) THEN AlwaysTrue ELSE AlwaysFalse

\* a null scalar as IS NULL whatever the operator
NullAlwaysIsNull(keyStr, operator) == Frag("isNull", keyStr, "IS NULL", <<>>, "", "")

\* the fragment of a null or undefined scalar
NullFragment(keyStr, operator) ==
  IF IsNegated(operator)
    THEN Frag("isNull", keyStr, "IS NOT NULL", <<>>, "", "")
    ELSE Frag("isNull", keyStr, "IS NULL", <<>>, "", "")

\* the callback of toGroupParametersSql
SqlCallback(tableName, action, o, itemValue, itemKey, operator, itemIndex) ==
  LET keyStr == itemKey
      groupKey == GroupKey(keyStr, itemIndex)
      one(frag) == Ok(<<[index |-> itemIndex, frag |-> frag]>>)
  IN IF o.hasColumnsList /\ ~InSeq(keyStr, o.columnsList)
       THEN IF o.onUnknownColumn = "ignore"
              THEN one(AlwaysTrue)
              ELSE Throw(unknownColumn(tableName, action, keyStr))
     ELSE IF itemValue.isArr
       THEN IF Len(itemValue.vals) = 0
              THEN one(EmptyArrayFragment(operator))
            ELSE IF operator = "BETWEEN"
              THEN IF ~BetweenArityOk(itemValue.vals)
                     THEN Throw(invalidBetween(tableName, action))
                     ELSE one(Frag("between", keyStr, "BETWEEN",
                                   << <<groupKey \o "_0", groupKey \o "_1">> >>, "", ""))
            ELSE IF operator = "LIKE"
              THEN one(Frag("likeList", keyStr, "LIKE",
                            << [i \in 1..Len(itemValue.vals) |->
                                  groupKey \o "_" \o ToString(i - 1)] >>,
                            "OR", o.escapeChar))
            ELSE LET chunks == Chunk(itemValue.vals, ChunkSizeOf(o))
                 IN one(Frag("inList", keyStr,
                             IF IsNegated(operator) THEN "NOT IN" ELSE "IN",
                             [c \in 1..Len(chunks) |->
                                [i \in 1..Len(chunks[c]) |->
                                   groupKey \o "_" \o ToString(c - 1) \o "_" \o ToString(i - 1)]],
                             InGlue(operator), ""))
     ELSE IF itemValue.vals[1] = Nil
       THEN one(NullFragment(keyStr, operator))
     ELSE IF operator = "LIKE"
       THEN one(Frag("like", keyStr, "LIKE", << <<groupKey>> >>, "", o.escapeChar))
     ELSE one(Frag("cmp", keyStr, operator, << <<groupKey>> >>, "", ""))

\* groupBy(keyValueArray, 0) then mapValues: the fragments of each item
\* index, indices ascending (the key order of a JavaScript object)
GroupByIndex(pairs) ==
  LET idxs == SortedSeq({pairs[k].index : k \in 1..Len(pairs)})
  IN [g \in 1..Len(idxs) |->
        [index |-> idxs[g],
         conds |-> LET ks == SortedSeq({k \in 1..Len(pairs) : pairs[k].index = idxs[g]})
                   IN [k \in 1..Len(ks) |-> pairs[ks[k]].frag]]]

SqlOptions(o) ==
  [hasColumnsList |-> o.hasColumnsList, columnsList |-> o.columnsList,
   onUnknownColumn |-> IF o.onUnknownColumn = Undefined
                         THEN DEFAULT_UNKNOWN_COLUMN ELSE o.onUnknownColumn,
   inChunkSize |-> o.inChunkSize, escapeChar |-> o.escapeChar]

toGroupParametersSql(tableName, action, inp, o) ==
  LET so == SqlOptions(o)
      args == mapEntityItems(EnsureArray(inp))
      mapped == CallbackResults(
                  [k \in 1..Len(args) |->
                     SqlCallback(tableName, action, so, args[k].itemValue, args[k].itemKey,
                                 args[k].operator, args[k].itemIndex)])
  IN IF Failed(mapped)
       THEN [err |-> mapped.err, groups |-> <<>>]
       ELSE [err |-> NoError, groups |-> GroupByIndex(mapped.pairs)]

(***************************************************************************)
(* Parameter binder.                                                       *)
(***************************************************************************)
\* applyLikeValue on a value whose text holds no %, _ or escape character
applyLikeValue(raw, likeMode) ==
  LET v == IF raw = Nil THEN "" ELSE ToString(raw)
  IN CASE likeMode = "contains" -> "%" \o v \o "%"
       [] likeMode = "startsWith" -> v \o "%"
       [] likeMode = "endsWith" -> "%" \o v
       [] OTHER -> v

Param(name, value, key, pattern) ==
  [name |-> name, value |-> value, key |-> key, pattern |-> pattern]

LikeModeOf(o) == IF o.likeMode = Undefined THEN DEFAULT_LIKE_MODE ELSE o.likeMode

\* the callback of toGroupParametersKeyValue
KeyValueCallback(tableName, action, o, itemValue, itemKey, operator, itemIndex) ==
  LET keyStr == itemKey
      groupKey == GroupKey(keyStr, itemIndex)
      vs == itemValue.vals
  IN IF itemValue.isArr
       THEN IF Len(vs) = 0
              THEN Ok(<<>>)
            ELSE IF operator = "BETWEEN"
              THEN IF ~BetweenArityOk(vs)
                     THEN Throw(invalidBetween(tableName, action))
                     ELSE Ok([i \in 1..Len(vs) |->
                                Param(groupKey \o "_" \o ToString(i - 1), vs[i], keyStr, "")])
            ELSE IF operator = "LIKE"
              THEN Ok([i \in 1..Len(vs) |->
                         Param(groupKey \o "_" \o ToString(i - 1), vs[i], keyStr,
                               applyLikeValue(vs[i], LikeModeOf(o)))])
            ELSE LET chunksArr == Chunk(vs, ChunkSizeOf(o))
                 IN Ok(Flatten([c \in 1..Len(chunksArr) |->
                                  [i \in 1..Len(chunksArr[c]) |->
                                     Param(groupKey \o "_" \o ToString(c - 1) \o "_"
                                             \o ToString(i - 1),
                                           chunksArr[c][i], keyStr, "")]]))
     ELSE IF vs[1] = Nil
       THEN Ok(<<>>)
     ELSE IF operator = "LIKE"
       THEN Ok(<<Param(groupKey, vs[1], keyStr, applyLikeValue(vs[1], LikeModeOf(o)))>>)
     ELSE Ok(<<Param(groupKey, vs[1], keyStr, "")>>)

\* a binder that chunks by the default size whatever inChunkSize says
BindWithDefaultChunk(tableName, action, items, o) ==
  LET args == mapEntityItems(items)
  IN CallbackResults(
       [k \in 1..Len(args) |->
          KeyValueCallback(tableName, action, [o EXCEPT !.inChunkSize = Nil],
                           args[k].itemValue, args[k].itemKey,
                           args[k].operator, args[k].itemIndex)])

toGroupParametersKeyValue(tableName, action, items, o) ==
  LET args == mapEntityItems(items)
  IN CallbackResults(
       [k \in 1..Len(args) |->
          KeyValueCallback(tableName, action, o, args[k].itemValue, args[k].itemKey,
                           args[k].operator, args[k].itemIndex)])

\* getParams: params[key] = {value, key}, later pairs overwriting earlier ones
ParamsOf(kvs) ==
  [n \in {kvs[k].name : k \in 1..Len(kvs)} |->
     LET last == kvs[Max({k \in 1..Len(kvs) : kvs[k].name = n})]
     IN [value |-> last.value, key |-> last.key, pattern |-> last.pattern]]

getParams(tableName, action, items, o) ==
  LET kv == toGroupParametersKeyValue(tableName, action, items, o)
  IN IF Failed(kv)
       THEN [err |-> kv.err, kvs |-> <<>>, params |-> <<>>]
       ELSE [err |-> NoError, kvs |-> kv.pairs, params |-> ParamsOf(kv.pairs)]

(***************************************************************************)
(* Column-shape grouper.                                                   *)
(***************************************************************************)
\* getColumnLists: the column names of each item index that has a field
getColumnLists(items) ==
  LET idxs == SortedSeq({i \in 1..Len(items) : Len(items[i]) > 0})
  IN [g \in 1..Len(idxs) |->
        [index |-> idxs[g] - 1,
         columns |-> [j \in 1..Len(items[idxs[g]]) |-> items[idxs[g]][j].key]]]

\* the column names left in key order
KeyOrder(columns) == columns

\* lodash sortBy on distinct column names
SortBy(columns) == SelectSeq(SortedKeys, LAMBDA c : InSeq(c, columns))

RECURSIVE JoinQuoted(_)
JoinQuoted(columns) ==
  IF Len(columns) = 0 THEN ""
  ELSE IF Len(columns) = 1 THEN "\"" \o columns[1] \o "\""
  ELSE "\"" \o columns[1] \o "\"," \o JoinQuoted(Tail(columns))

JsonStringify(columns) == "[" \o JoinQuoted(columns) \o "]"

\* groupEntityParametersBySortedColumns: item indices by the JSON text of
\* their sorted column list, groups in order of first appearance
groupEntityParametersBySortedColumns(items) ==
  LET columnLists == getColumnLists(items)
      sortedKey(g) == JsonStringify(SortBy(columnLists[g].columns))
      firsts == SortedSeq({g \in 1..Len(columnLists) :
                             \A h \in 1..(g - 1) : sortedKey(h) # sortedKey(g)})
  IN [n \in 1..Len(firsts) |->
        [sortedKey |-> sortedKey(firsts[n]),
         columns |-> SortBy(columnLists[firsts[n]].columns),
         ids |-> LET gs == SortedSeq({g \in 1..Len(columnLists) :
                                        sortedKey(g) = sortedKey(firsts[n])})
                 IN [k \in 1..Len(gs) |-> columnLists[gs[k]].index]]]

\* buildColumnsAndValuesSqlStatements: per group the column list and one
\* VALUES row of placeholders @{col}_{id} per item index
buildColumnsAndValuesSqlStatements(grouped) ==
  [n \in 1..Len(grouped) |->
     [columns |-> grouped[n].columns,
      rows |-> [k \in 1..Len(grouped[n].ids) |->
                  [id |-> grouped[n].ids[k],
                   ph |-> [c \in 1..Len(grouped[n].columns) |->
                             grouped[n].columns[c] \o "_" \o ToString(grouped[n].ids[k])]]]]]

buildInsertSqlStatements(tableName, grouped) ==
  LET cv == buildColumnsAndValuesSqlStatements(grouped)
  IN [n \in 1..Len(cv) |->
        [kind |-> "insert", table |-> tableName, columns |-> cv[n].columns,
         rows |-> cv[n].rows, keyColumn |-> "", setColumns |-> <<>>]]

buildUpdateSqlStatements(tableName, grouped, keyColumn) ==
  LET cv == buildColumnsAndValuesSqlStatements(grouped)
  IN [n \in 1..Len(cv) |->
        [kind |-> "merge", table |-> tableName, columns |-> cv[n].columns,
         rows |-> cv[n].rows, keyColumn |-> keyColumn,
         setColumns |-> SelectSeq(cv[n].columns, LAMBDA c : c # keyColumn)]]

(***************************************************************************)
(* Item preparation of the statement builders.                             *)
(***************************************************************************)
\* entityParametersFilter: pick (IN) or omit (OUT) one column of every item
entityParametersFilter(items, columnFiltered, operator) ==
  [i \in 1..Len(items) |->
     IF operator = "IN"
       THEN SelectSeq(items[i], LAMBDA f : f.key = columnFiltered)
       ELSE SelectSeq(items[i], LAMBDA f : f.key # columnFiltered)]

HasKey(item, key) == key \in ItemKeys(item)

\* isNil(item[key])
KeyIsNil(item, key) ==
  \/ ~HasKey(item, key)
  \/ LET f == ItemField(item, key) IN ~f.fq /\ ~f.isArr /\ f.vals[1] = Nil

\* ensureArray(item[keyColumn]) as fields: an array gives one raw scalar per
\* element, anything else (a scalar, a FieldQuery object) itself
KeyColumns(item, key) ==
  LET f == ItemField(item, key)
  IN IF f.isArr /\ ~f.fq
       THEN [k \in 1..Len(f.vals) |-> RawScalar(key, f.vals[k])]
       ELSE <<f>>

\* {...item, [keyColumn]: k}
WithKey(item, key, k) == [j \in 1..Len(item) |-> IF item[j].key = key THEN k ELSE item[j]]

\* the items that have a key value, one row each
OneRowPerItem(items, keyColumn) ==
  SelectSeq(items, LAMBDA item : ~KeyIsNil(item, keyColumn))

prepareUpdateEntityParamsByKey(items, keyColumn) ==
  Flatten([i \in 1..Len(items) |->
             IF KeyIsNil(items[i], keyColumn)
               THEN <<>>
               ELSE LET keyColumns == KeyColumns(items[i], keyColumn)
                    IN [k \in 1..Len(keyColumns) |->
                          WithKey(items[i], keyColumn, keyColumns[k])]])

\* a FieldQuery object used as an id value: an object reference, distinct
\* per item for uniq
ObjectRef(i) == 0 - i

\* mergeEntityParametersById: one item {id: uniq(all id values)}
mergeEntityParametersById(items) ==
  LET ids == Flatten([i \in 1..Len(items) |->
                        IF KeyIsNil(items[i], "id")
                          THEN <<>>
                          ELSE LET f == ItemField(items[i], "id")
                               IN IF f.fq THEN <<ObjectRef(i)>>
                                  ELSE f.vals])
  IN << <<RawArray("id", Uniq(ids))>> >>

(***************************************************************************)
(* Statement builders.                                                     *)
(***************************************************************************)
NoStatements == <<>>
NoParams == <<>>

Built(statements, kvs) ==
  [err |-> NoError, statements |-> statements, kvs |-> kvs, params |-> ParamsOf(kvs)]

Raised(e) == [err |-> e, statements |-> NoStatements, kvs |-> <<>>, params |-> NoParams]

insertSql(tableName, inp, columnFiltered, o) ==
  LET entityParametersFiltered == entityParametersFilter(EnsureArray(inp), columnFiltered, "OUT")
      params == getParams(tableName, "insert", entityParametersFiltered, o)
      reversedColumnLists == groupEntityParametersBySortedColumns(entityParametersFiltered)
  IN IF Failed(params)
       THEN Raised(params.err)
       ELSE Built(buildInsertSqlStatements(tableName, reversedColumnLists), params.kvs)

updateByKeySql(tableName, inp, keyColumn, o) ==
  LET prepared == IF keyColumn # "id"
                    THEN prepareUpdateEntityParamsByKey(
                           entityParametersFilter(EnsureArray(inp), "id", "OUT"), keyColumn)
                    ELSE prepareUpdateEntityParamsByKey(EnsureArray(inp), "id")
      params == getParams(tableName, "update", prepared, o)
      reversedColumnLists == groupEntityParametersBySortedColumns(prepared)
  IN IF Failed(params)
       THEN Raised(params.err)
       ELSE Built(buildUpdateSqlStatements(tableName, reversedColumnLists, keyColumn),
                  params.kvs)

NoColumnsList(o) ==
  [o EXCEPT !.hasColumnsList = FALSE, !.columnsList = <<>>, !.onUnknownColumn = Undefined,
            !.escapeChar = ""]

\* a delete that compiles the items as given: no pick of id, no merge
DeleteByItems(tableName, inp, o) ==
  LET do == [NoColumnsList(o) EXCEPT !.likeMode = Undefined]
      params == getParams(tableName, "delete", EnsureArray(inp), do)
      groupedParametersSql == toGroupParametersSql(tableName, "delete", inp, do)
  IN IF Failed(params) THEN Raised(params.err)
     ELSE IF Failed(groupedParametersSql) THEN Raised(groupedParametersSql.err)
     ELSE Built([g \in 1..Len(groupedParametersSql.groups) |->
                   [kind |-> "delete", table |-> tableName,
                    where |-> <<groupedParametersSql.groups[g].conds>>]],
                params.kvs)

deleteByIdSql(tableName, inp, o) ==
  LET entityParametersFiltered == entityParametersFilter(EnsureArray(inp), "id", "IN")
      merged == [single |-> FALSE, items |-> mergeEntityParametersById(entityParametersFiltered)]
      do == [NoColumnsList(o) EXCEPT !.likeMode = Undefined]
      params == getParams(tableName, "delete", merged.items, do)
      groupedParametersSql == toGroupParametersSql(tableName, "delete", merged, do)
  IN IF Failed(params) THEN Raised(params.err)
     ELSE IF Failed(groupedParametersSql) THEN Raised(groupedParametersSql.err)
     ELSE Built([g \in 1..Len(groupedParametersSql.groups) |->
                   [kind |-> "delete", table |-> tableName,
                    where |-> <<groupedParametersSql.groups[g].conds>>]],
                params.kvs)

\* buildOrderBySql: the ORDER BY list, empty when there is none
buildOrderBySql(tableName, columnsList, o) ==
  IF o.hasOrderBy /\ Len(o.orderBy) > 0
    THEN LET bad == {k \in 1..Len(o.orderBy) :
                       \/ o.orderBy[k].form = "other"
                       \/ ~InSeq(o.orderBy[k].column, columnsList)}
         IN IF bad # {}
              THEN IF o.orderBy[Min(bad)].form = "other"
                     THEN Throw(invalidOrderBy(tableName, "find"))
                     ELSE Throw(invalidOrderByColumn(tableName, "find"))
              ELSE Ok([k \in 1..Len(o.orderBy) |->
                         [column |-> o.orderBy[k].column,
                          direction |-> IF o.orderBy[k].form = "object"
                                             /\ o.orderBy[k].direction # Undefined
                                          THEN o.orderBy[k].direction ELSE "ASC"]])
  ELSE IF (o.skip # <<>> /\ o.skip[1] # 0) \/ (o.take # <<>> /\ o.take[1] # 0)
    THEN Ok(<<[column |-> IF o.defaultOrderBy = Undefined THEN "created_at"
                          ELSE o.defaultOrderBy,
               direction |-> "ASC"]>>)
  ELSE Ok(<<>>)

\* the OFFSET/FETCH clause: <<skip, take>>, empty when there is none
PagingSql(o) ==
  IF o.skip # <<>> \/ o.take # <<>>
    THEN <<IF o.skip = <<>> THEN 0 ELSE o.skip[1],
           IF o.take = <<>> THEN DEFAULT_TAKE ELSE o.take[1]>>
    ELSE <<>>

Select(tableName, hasWhere, where, orderBy, paging) ==
  <<[kind |-> "select", table |-> tableName, hasWhere |-> hasWhere, where |-> where,
     orderBy |-> orderBy, paging |-> paging]>>

\* the compiler's own default mode
SelectIgnoresUnknownColumn == "ignore"

\* the onUnknownColumn mode selectByColumnsSql compiles with
SelectUnknownColumn == "throw"

selectByColumnsSql(tableName, columnsList, inp, o) ==
  LET orderBySql == buildOrderBySql(tableName, columnsList, o)
      pagingSql == PagingSql(o)
      params == getParams(tableName, "find", EnsureArray(inp), o)
      groupedParametersSql ==
        toGroupParametersSql(tableName, "find", inp,
                             [o EXCEPT !.hasColumnsList = TRUE, !.columnsList = columnsList,
                                       !.onUnknownColumn = SelectUnknownColumn])
  IN IF Failed(orderBySql) THEN Raised(orderBySql.err)
     ELSE IF SizeOf(inp) = 0
       THEN Built(Select(tableName, FALSE, <<>>, orderBySql.pairs, pagingSql), <<>>)
     ELSE IF Failed(params) THEN Raised(params.err)
     ELSE IF Failed(groupedParametersSql) THEN Raised(groupedParametersSql.err)
     ELSE Built(Select(tableName, TRUE,
                       [g \in 1..Len(groupedParametersSql.groups) |->
                          groupedParametersSql.groups[g].conds],
                       orderBySql.pairs, pagingSql),
                params.kvs)

(***************************************************************************)
(* Inputs.                                                                 *)
(***************************************************************************)
DefaultOpts ==
  [inChunkSize |-> Nil, hasColumnsList |-> FALSE, columnsList |-> <<>>,
   onUnknownColumn |-> Undefined, escapeChar |-> "", likeMode |-> Undefined,
   keyColumn |-> "id", hasOrderBy |-> FALSE, orderBy |-> <<>>,
   defaultOrderBy |-> Undefined, skip |-> <<>>, take |-> <<>>]

\* arrays of values in ascending or descending order, repetitions included
Arrays ==
  {vs \in UNION {[1..n -> Values] : n \in 0..MaxLen} :
     \/ \A k \in 1..(Len(vs) - 1) : vs[k] <= vs[k + 1]
     \/ \A k \in 1..(Len(vs) - 1) : vs[k] >= vs[k + 1]}

\* every shape one field can take: raw scalar or null, raw array, FieldQuery
\* with or without operator over a scalar, null or array
FieldShapes(key) ==
  {RawScalar(key, v) : v \in Values \cup {Nil}}
    \cup {RawArray(key, vs) : vs \in Arrays}
    \cup {Field(key, TRUE, op, FALSE, <<v>>) :
            op \in Operators \cup {Undefined}, v \in Values \cup {Nil}}
    \cup {Field(key, TRUE, op, TRUE, vs) : op \in Operators \cup {Undefined}, vs \in Arrays}

\* one field: in a one-item list, as a single object, behind an empty item
\* (item index 1), or naming a column the table does not have
FieldInputs ==
  {[single |-> s, items |-> <<<<f>>>>] : s \in BOOLEAN, f \in FieldShapes("a")}
    \cup {[single |-> FALSE, items |-> << <<>>, <<f>> >>] : f \in FieldShapes("a")}
    \cup {[single |-> FALSE, items |-> <<<<f>>>>] : f \in FieldShapes("zz")}

\* the fields of the batches: few shapes per column
BatchFields ==
  {RawScalar("id", 1), RawArray("id", <<1, 2>>),
   Field("a", TRUE, "BETWEEN", TRUE, <<1, 2>>),
   RawScalar("a_0", 2)}

ColumnRank(key) == CHOOSE k \in 1..Len(TableColumns) : TableColumns[k] = key

Reverse(s) == [k \in 1..Len(s) |-> s[Len(s) + 1 - k]]

\* an item: fields with distinct keys, in the column order of the table or
\* in the reverse order
BatchItems ==
  LET ordered == UNION {{it \in [1..n -> BatchFields] :
                           \A j \in 1..(n - 1) : ColumnRank(it[j].key) < ColumnRank(it[j + 1].key)} :
                        n \in 0..Len(TableColumns)}
  IN ordered \cup {Reverse(it) : it \in ordered}

BatchInputs ==
  {[single |-> FALSE, items |-> its] : its \in UNION {[1..n -> BatchItems] : n \in 0..MaxItems}}
    \cup {[single |-> TRUE, items |-> <<it>>] : it \in BatchItems}

ChunkSizes == {Nil} \cup 1..MaxChunk

OrderBys ==
  {<<[form |-> "string", column |-> "a", direction |-> Undefined]>>,
   <<[form |-> "object", column |-> "id", direction |-> "DESC"]>>,
   <<[form |-> "string", column |-> "zz", direction |-> Undefined]>>,
   <<[form |-> "other", column |-> "", direction |-> Undefined]>>}

HasOperator(inp, operator) ==
  \E i \in 1..Len(inp.items) : \E j \in 1..Len(inp.items[i]) :
     FieldOperator(inp.items[i][j]) = operator

\* the LIKE options matter to LIKE fields only
LikeModes(inp) ==
  IF HasOperator(inp, "LIKE")
    THEN {Undefined, "contains", "startsWith", "endsWith"} ELSE {Undefined}

EscapeChars(inp) == IF HasOperator(inp, "LIKE") THEN {"", "!"} ELSE {""}

\* skip, take and defaultOrderBy left out; emptyOrderBy is orderBy: []
NoPaging ==
  [skip |-> <<>>, take |-> <<>>, defaultOrderBy |-> Undefined, emptyOrderBy |-> FALSE]

\* skip and take: left out or a number from 0 on; defaultOrderBy: left out or
\* a column; the order-by list left out or given empty
PagingOptions ==
  [skip : {<<>>} \cup {<<n>> : n \in 0..MaxPage},
   take : {<<>>} \cup {<<n>> : n \in 0..MaxPage},
   defaultOrderBy : {Undefined, "id"},
   emptyOrderBy : BOOLEAN]

\* option choices <<inChunkSize, orderBy, paging>> of the find calls
FieldSelectOptions ==
  {<<n, <<>>, NoPaging>> : n \in ChunkSizes} \cup {<<Nil, ob, NoPaging>> : ob \in OrderBys}

BatchSelectOptions == {<<Nil, <<>>, NoPaging>>}

\* paging with no order-by list, an empty one, or a valid one
PageSelectOptions ==
  {<<Nil, <<>>, pg>> : pg \in PagingOptions}
    \cup {<<Nil, <<[form |-> "string", column |-> "a", direction |-> Undefined]>>, pg>> :
            pg \in {q \in PagingOptions : ~q.emptyOrderBy}}

\* what is paged: every row, or the rows one field selects
PageInputs ==
  {[single |-> FALSE, items |-> <<>>],
   [single |-> FALSE, items |-> <<<<RawScalar("a", 1)>>>>],
   [single |-> TRUE, items |-> <<<<RawScalar("a", 1)>>>>]}

\* option choices <<inChunkSize, whitelist mode>> of the direct compiler calls
CompileOptions ==
  {<<n, "none">> : n \in ChunkSizes} \cup {<<Nil, wl>> : wl \in {"default", "ignore", "throw"}}

(***************************************************************************)
(* The data-access object BaseDao (src/src/lib/base.dao.ts): hooks.        *)
(***************************************************************************)
Methods == {"find", "insert", "update", "delete"}
HookTypes == {"before", "after"}
HookPairs == HookTypes \X Methods

\* a stored hook: the function and whether it runs behind defaultBeforeHook
Hook(fn, validate) == [fn |-> fn, validate |-> validate]

\* get(this.hooks, [hookType, action]) of a pair nothing was stored for
NoHook == Hook(Undefined, FALSE)

\* the constructor: the default before hook for each action, no after hook
DefaultHooks ==
  [pair \in HookPairs |-> IF pair[1] = "before" THEN Hook("default", FALSE) ELSE NoHook]

(***************************************************************************)
(* Relations: the foreignKey descriptors {column, table, key} of the       *)
(* entity's metadata, and the tables they name.                            *)
(***************************************************************************)
ForeignTables == {"p", "q"}

ForeignKey(column, table, key) == [column |-> column, table |-> table, key |-> key]

\* getRelations() ?? { foreignKey: [] }
NoRelations == [foreignKey |-> <<>>]

EmptyDb == [main |-> <<>>, foreign |-> [t \in ForeignTables |-> <<>>]]

\* related: nothing stored under any table
NoRelated == [t \in ForeignTables |-> [stored |-> FALSE, rows |-> <<>>]]

\* no fetchWithRelations call under way
NoFetch ==
  [phase |-> "idle", mainRecords |-> <<>>, fks |-> <<>>, pending |-> {},
   related |-> NoRelated, result |-> <<>>]

\* a registerHook that installs the function for every action of the phase
RegisterForPhase(hks, hookType, action, fn, validate) ==
  [pair \in HookPairs |->
     IF pair[1] = hookType THEN Hook(fn, validate /\ hookType = "before") ELSE hks[pair]]

\* registerHook: the function, behind defaultBeforeHook when validate is set
\* on a before hook, stored under [hookType][action]
registerHook(hks, hookType, action, fn, validate) ==
  [hks EXCEPT ![<<hookType, action>>] = Hook(fn, validate /\ hookType = "before")]

(***************************************************************************)
(* The entity of the data-access object.  The entity schemas are generated *)
(* code; the object uses the schema's column names, its sqlType metadata   *)
(* and the verdict of safeParse.                                           *)
(***************************************************************************)
ClassName == "TDao"

\* keys(this.shape)
EntityColumns == <<"id", "a", "a_0", "b", "c">>

\* get(zodColumn.meta(), 'sqlType'): b carries no sqlType, c one that names
\* no backend type
SqlTypeMeta(key) ==
  CASE key \in {"id", "a", "a_0"} -> "int"
    [] key = "b" -> Undefined
    [] OTHER -> "integer"

\* keys(sql.TYPES) through ensureLowerCase
BackendTypes == {"int", "bit", "nvarchar"}

\* a value the entity schema rejects
Rejected == MaxVal + 1

\* the errors of DaoError and of the runtime
noColumn(className, action) ==
  [kind |-> "noColumn", table |-> className, action |-> action, item |-> ""]

noId(className, action) ==
  [kind |-> "noId", table |-> className, action |-> action, item |-> ""]

sqlTypeNotFound(className, action, paramKey) ==
  [kind |-> "sqlTypeNotFound", table |-> className, action |-> action, item |-> paramKey]

\* DaoError.validateField: one line `[key]: value` per pair of each record
validateFieldError(className, errors) ==
  [err |-> [kind |-> "validateField", table |-> className, action |-> "", item |-> ""],
   messages |-> [k \in 1..Len(errors) |->
                   [key |-> ToString(errors[k].index), value |-> errors[k].message]]]

\* zodColumn.meta() on a column the shape does not have
TypeError(key) == [kind |-> "TypeError", table |-> "", action |-> "", item |-> key]

\* the rejection of request.query
RequestError == [kind |-> "RequestError", table |-> "", action |-> "", item |-> ""]

(***************************************************************************)
(* cleanParameters, validateField and the default before hook.             *)
(***************************************************************************)
\* isNil(item[key])
IsNilField(f) == ~f.fq /\ ~f.isArr /\ f.vals[1] = Nil

\* isArray(item[key])
IsArrayField(f) == ~f.fq /\ f.isArr

cleanParameters(data, columnFiltered) ==
  LET items == EnsureArray(data)
      picked == [i \in 1..Len(items) |-> SelectSeq(items[i], LAMBDA f : ~IsNilField(f))]
      filtered == SelectSeq(picked, LAMBDA item : Len(item) > 0)
  IN IF columnFiltered # Undefined
       THEN SelectSeq(filtered, LAMBDA item : columnFiltered \in ItemKeys(item))
       ELSE filtered

\* partialEntity.safeParse of an object: success, or the fields at fault
safeParse(fields) ==
  LET bad == SelectSeq(fields, LAMBDA f : InSeq(Rejected, f.vals))
  IN [success |-> Len(bad) = 0, issues |-> [k \in 1..Len(bad) |-> bad[k].key]]

\* [restResult, ...arrayResult] of one item
SafeParseResults(item) ==
  LET arrayFields == SelectSeq(item, IsArrayField)
      rest == SelectSeq(item, LAMBDA f : ~IsArrayField(f))
  IN <<safeParse(rest)>>
       \o Flatten([j \in 1..Len(arrayFields) |->
                     [k \in 1..Len(arrayFields[j].vals) |->
                        safeParse(<<RawScalar(arrayFields[j].key, arrayFields[j].vals[k])>>)]])

Validated(items) == [err |-> NoError, messages |-> <<>>, single |-> FALSE, items |-> items]

BeforeThrow(e) == [err |-> e, messages |-> <<>>, single |-> FALSE, items |-> <<>>]

\* a validation that reports the first failed check only
FirstFailureOnly(className, data) ==
  LET items == EnsureArray(data)
      failedResults(i) == SelectSeq(SafeParseResults(items[i]), LAMBDA r : ~r.success)
      failing == {i \in 1..Len(items) : Len(failedResults(i)) > 0}
      thrown == validateFieldError(className,
                                   <<[index |-> Min(failing) - 1,
                                      message |-> failedResults(Min(failing))[1].issues]>>)
  IN IF failing # {}
       THEN [err |-> thrown.err, messages |-> thrown.messages, single |-> FALSE,
             items |-> <<>>]
       ELSE Validated(items)

validateField(className, data) ==
  LET items == EnsureArray(data)
      failedResults(i) == SelectSeq(SafeParseResults(items[i]), LAMBDA r : ~r.success)
      errorMessages ==
        Flatten([i \in 1..Len(items) |->
                   [k \in 1..Len(failedResults(i)) |->
                      [index |-> i - 1, message |-> failedResults(i)[k].issues]]])
      kept == SortedSeq({i \in 1..Len(items) : Len(failedResults(i)) = 0})
      validated == [k \in 1..Len(kept) |-> items[kept[k]]]
      thrown == validateFieldError(className, errorMessages)
  IN IF Len(errorMessages) > 0
       THEN [err |-> thrown.err, messages |-> thrown.messages, single |-> FALSE,
             items |-> <<>>]
       ELSE Validated(validated)

defaultBeforeHook(className, data, action, columnFiltered) ==
  LET cleanedParameters == cleanParameters(data, columnFiltered)
  IN IF Len(cleanedParameters) = 0 /\ action # "find"
       THEN IF columnFiltered = "id"
              THEN BeforeThrow(noId(className, action))
              ELSE BeforeThrow(noColumn(className, action))
       ELSE validateField(className, [single |-> FALSE, items |-> cleanedParameters])

\* the functions callers register: as a before hook each hands its argument
\* on, as an after hook each looks at the result
HookFns == {"f", "g"}

\* what a before hook returned or threw, with the functions that were
\* invoked on the way and the items the registered function was given
Invoked(r, ran, fnArg) ==
  [err |-> r.err, messages |-> r.messages, single |-> r.single, items |-> r.items,
   ran |-> ran, fnArg |-> fnArg]

\* the data handed on as it is
HandedOn(data) ==
  [err |-> NoError, messages |-> <<>>, single |-> data.single, items |-> data.items]

\* a wrapper that gives the registered function the caller's data without
\* running the default hook
SkipDefault(hook, className, data, action, columnFiltered) ==
  IF hook.fn = Undefined
    THEN Invoked(HandedOn(data), <<>>, <<>>)
  ELSE IF hook.fn = "default"
    THEN Invoked(defaultBeforeHook(className, data, action, columnFiltered),
                 <<"default">>, <<>>)
  ELSE Invoked(HandedOn(data), <<hook.fn>>, data.items)

\* runBefore: the stored hook on the data, or the data when there is none.
\* The hook stored by registerHook with validate is the wrapper of lines
\* 164-174: defaultBeforeHook first, then the registered function on what it
\* returned
runBefore(hook, className, data, action, columnFiltered) ==
  IF hook.fn = Undefined
    THEN Invoked(HandedOn(data), <<>>, <<>>)
  ELSE IF hook.fn = "default"
    THEN Invoked(defaultBeforeHook(className, data, action, columnFiltered),
                 <<"default">>, <<>>)
  ELSE IF hook.validate
    THEN LET cleaned == defaultBeforeHook(className, data, action, columnFiltered)
         IN  IF Failed(cleaned)
               THEN Invoked(cleaned, <<"default">>, <<>>)
               ELSE Invoked(cleaned, <<"default", hook.fn>>, cleaned.items)
  ELSE Invoked(HandedOn(data), <<hook.fn>>, data.items)

(***************************************************************************)
(* bindParams: request.input for every entry of params, in key order of    *)
(* the object, until a column has no backend type.                         *)
(***************************************************************************)
getSqlType(key) ==
  IF InSeq(key, EntityColumns)
    THEN [err |-> NoError, sqlType |-> SqlTypeMeta(key)]
    ELSE [err |-> TypeError(key), sqlType |-> Undefined]

BindOutcome(className, action, paramKey) ==
  LET t == getSqlType(paramKey)
  IN IF Failed(t) THEN t.err
     ELSE IF t.sqlType \notin BackendTypes THEN sqlTypeNotFound(className, action, paramKey)
     ELSE NoError

bindParams(className, kvs, action) ==
  LET params == ParamsOf(kvs)
      names == Uniq([k \in 1..Len(kvs) |-> kvs[k].name])
      outcome(k) == BindOutcome(className, action, params[names[k]].key)
      bad == {k \in 1..Len(names) : outcome(k).kind # "none"}
      bound == IF bad = {} THEN Len(names) ELSE Min(bad) - 1
  IN [err |-> IF bad = {} THEN NoError ELSE outcome(Min(bad)),
      inputs |-> [k \in 1..bound |->
                    [name |-> names[k], type |-> SqlTypeMeta(params[names[k]].key),
                     value |-> params[names[k]].value]]]

(***************************************************************************)
(* insert, update, delete and find up to request.query.                    *)
(***************************************************************************)
\* the required column each method hands to runBefore
RequiredColumn(action) == IF action \in {"update", "delete"} THEN "id" ELSE Undefined

\* the statement builder of each method on the data the before hook returns
DaoBuild(action, data, o) ==
  CASE action = "insert" -> insertSql(TableName, data, "id", o)
    [] action = "update" -> updateByKeySql(TableName, data, "id", o)
    [] action = "delete" -> deleteByIdSql(TableName, data, o)
    [] OTHER -> IF SizeOf(data) = 0
                  THEN selectByColumnsSql(TableName, EntityColumns,
                                          [single |-> FALSE, items |-> <<>>], o)
                  ELSE selectByColumnsSql(TableName, EntityColumns, data, o)

\* the outcome of a method; queried: request.query has been called
DaoResult(e, messages, cleaned, q, inputs, queried) ==
  [err |-> e, messages |-> messages, cleaned |-> cleaned, statements |-> q.statements,
   kvs |-> q.kvs, params |-> q.params, inputs |-> inputs, groups |-> <<>>,
   queried |-> queried, after |-> Undefined, afterArg |-> 0, steps |-> <<>>,
   ran |-> <<>>, fnArg |-> <<>>]

\* a method that sends its statement before it binds the parameters
QueryBeforeBind(before, query, request) ==
  IF Failed(before)
    THEN DaoResult(before.err, before.messages, <<>>, Raised(before.err), <<>>, FALSE)
  ELSE IF Failed(query)
    THEN DaoResult(query.err, <<>>, before.items, query, <<>>, FALSE)
  ELSE DaoResult(request.err, <<>>, before.items, query, request.inputs, TRUE)

\* a method up to its request.query: the error thrown on the way, or the
\* request sent
DaoPrepared(before, query, request) ==
  IF Failed(before)
    THEN DaoResult(before.err, before.messages, <<>>, Raised(before.err), <<>>, FALSE)
  ELSE IF Failed(query)
    THEN DaoResult(query.err, <<>>, before.items, query, <<>>, FALSE)
  ELSE IF Failed(request)
    THEN DaoResult(request.err, <<>>, before.items, query, request.inputs, FALSE)
  ELSE DaoResult(NoError, <<>>, before.items, query, request.inputs, TRUE)

\* the steps a method has taken when it throws or calls request.query
\* (findAll, which find falls back to without conditions, binds nothing)
DaoSteps(action, before, query, request) ==
  IF Failed(before) THEN <<"before">>
  ELSE IF Failed(query) THEN <<"before", "compile">>
  ELSE IF Failed(request) THEN <<"before", "compile", "bind">>
  ELSE IF action = "find" /\ Len(before.items) = 0
    THEN <<"before", "compile", "execute">>
  ELSE <<"before", "compile", "bind", "execute">>

\* an after hook that also runs when the request was rejected
AfterAlways(r, hook, result, accepted) ==
  IF hook.fn = Undefined
    THEN IF accepted THEN r ELSE [r EXCEPT !.err = RequestError]
    ELSE [r EXCEPT !.err = IF accepted THEN NoError ELSE RequestError,
                   !.after = hook.fn, !.afterArg = result,
                   !.steps = Append(@, "after")]

\* the end of a method: a rejected request.query throws the backend's error;
\* an accepted one gives its result to runAfter (lines 190-193), which calls
\* the after hook when there is one
runAfter(r, hook, result, accepted) ==
  IF ~accepted THEN [r EXCEPT !.err = RequestError]
  ELSE IF hook.fn = Undefined THEN r
  ELSE [r EXCEPT !.after = hook.fn, !.afterArg = result, !.steps = Append(@, "after")]

(***************************************************************************)
(* State machine: one call of one exported function on the input.          *)
(***************************************************************************)
NoResult ==
  [err |-> NoError, statements |-> NoStatements, kvs |-> <<>>, params |-> NoParams,
   groups |-> <<>>]

WithGroups(r, groups) ==
  [err |-> r.err, statements |-> r.statements, kvs |-> r.kvs, params |-> r.params,
   groups |-> groups]

(***************************************************************************)
(* The Database singleton (src/src/lib/db.ts) and its callers.              *)
(***************************************************************************)
\* the concurrent callers of the singleton (requests being served)
Callers == {"c1", "c2"}

\* private pool: sql.ConnectionPool | null = null
NoPool == 0

\* the errors a caller of the Database can receive
NoFailure == ""

connectionError == "DbError.connectionError"

\* a caller that is making no call
IdleCaller ==
  [op |-> "none", pc |-> "idle", retries |-> 0, given |-> 0, attempts |-> 0,
   ret |-> NoPool, err |-> NoFailure, events |-> {},
   dbStatus |-> "pending", blobStatus |-> "pending", response |-> <<>>]

\* the module's singleton before any call: no pool stored
InitDatabase ==
  /\ pool = NoPool /\ connected = FALSE
  /\ proc = [c \in Callers |-> IdleCaller]

\* a new BaseDao: the constructor's hooks, nothing registered, nothing sent
InitDao ==
  /\ hooks = DefaultHooks /\ registered = <<>> /\ backend = <<>>
  /\ entity = NoRelations /\ db = EmptyDb /\ fetch = NoFetch

InitCall ==
  opts = DefaultOpts /\ call = "none" /\ out = NoResult /\ InitDao /\ InitDatabase

Init == input \in BatchInputs /\ InitCall

InitPage == input \in PageInputs /\ InitCall

InitField == input \in FieldInputs /\ InitCall

SelectByColumnsSql(options) ==
  /\ call = "none"
  /\ \E so \in options, esc \in EscapeChars(input) :
       opts' = [opts EXCEPT !.inChunkSize = so[1],
                            !.hasOrderBy = (so[2] # <<>> \/ so[3].emptyOrderBy),
                            !.orderBy = so[2], !.escapeChar = esc,
                            !.skip = so[3].skip, !.take = so[3].take,
                            !.defaultOrderBy = so[3].defaultOrderBy]
  /\ call' = "select"
  /\ out' = WithGroups(selectByColumnsSql(TableName, TableColumns, input, opts'), <<>>)
  /\ UNCHANGED <<input, daoVars, relVars, poolVars>>

InsertSql ==
  /\ call = "none"
  /\ opts' = opts
  /\ call' = "insert"
  /\ out' = WithGroups(insertSql(TableName, input, "id", opts'), <<>>)
  /\ UNCHANGED <<input, daoVars, relVars, poolVars>>

UpdateByKeySql ==
  /\ call = "none"
  /\ \E kc \in {"id", "a"} : opts' = [opts EXCEPT !.keyColumn = kc]
  /\ call' = "update"
  /\ out' = WithGroups(updateByKeySql(TableName, input, opts'.keyColumn, opts'), <<>>)
  /\ UNCHANGED <<input, daoVars, relVars, poolVars>>

DeleteByIdSql ==
  /\ call = "none"
  /\ \E n \in {Nil, 1} : opts' = [opts EXCEPT !.inChunkSize = n]
  /\ call' = "delete"
  /\ out' = WithGroups(deleteByIdSql(TableName, input, opts'), <<>>)
  /\ UNCHANGED <<input, daoVars, relVars, poolVars>>

\* a direct call of the predicate compiler, with or without a whitelist
ToGroupParametersSql ==
  /\ call = "none"
  /\ \E co \in CompileOptions, esc \in EscapeChars(input) :
       opts' = [opts EXCEPT !.inChunkSize = co[1], !.escapeChar = esc,
                            !.hasColumnsList = (co[2] # "none"),
                            !.columnsList = IF co[2] = "none" THEN <<>> ELSE TableColumns,
                            !.onUnknownColumn = IF co[2] \in {"ignore", "throw"}
                                                  THEN co[2] ELSE Undefined]
  /\ call' = "compile"
  /\ LET r == toGroupParametersSql(TableName, "find", input, opts')
     IN out' = [NoResult EXCEPT !.err = r.err, !.groups = r.groups]
  /\ UNCHANGED <<input, daoVars, relVars, poolVars>>

\* a direct call of the parameter binder
GetParams ==
  /\ call = "none"
  /\ \E n \in ChunkSizes, lm \in LikeModes(input) :
       opts' = [opts EXCEPT !.inChunkSize = n, !.likeMode = lm]
  /\ call' = "bind"
  /\ LET r == getParams(TableName, "find", EnsureArray(input), opts')
     IN out' = [NoResult EXCEPT !.err = r.err, !.kvs = r.kvs, !.params = r.params]
  /\ UNCHANGED <<input, daoVars, relVars, poolVars>>

\* the statement builders on batches of items
Next ==
  \/ SelectByColumnsSql(BatchSelectOptions)
  \/ InsertSql
  \/ UpdateByKeySql
  \/ DeleteByIdSql

Spec == Init /\ [][Next]_vars

\* the compiler, the binder and the find builder on one field of any shape
\* find calls with paging options
NextPage == SelectByColumnsSql(PageSelectOptions)

SpecPage == InitPage /\ [][NextPage]_vars

NextField ==
  \/ SelectByColumnsSql(FieldSelectOptions)
  \/ ToGroupParametersSql
  \/ GetParams

SpecField == InitField /\ [][NextField]_vars

(***************************************************************************)
(* The data-access object: inputs of its methods.                          *)
(***************************************************************************)
\* items with and without id, with null fields, with values the schema
\* rejects, with columns that have no backend type, and with a bad BETWEEN
DaoItems ==
  {<<>>,
   <<RawScalar("id", 1)>>,
   <<RawScalar("id", 1), RawScalar("a", 1)>>,
   <<RawScalar("id", 2), RawScalar("a", 2)>>,
   <<RawScalar("a", 1)>>,
   <<RawScalar("id", Nil), RawScalar("a", 1)>>,
   <<RawScalar("a", Nil)>>,
   <<RawScalar("id", 1), RawScalar("a", Rejected)>>,
   <<RawScalar("id", 2), RawScalar("a", Rejected), RawArray("a_0", <<Rejected, 1, Rejected>>)>>,
   <<RawArray("a_0", <<1, 2>>)>>,
   <<RawScalar("id", 1), RawScalar("b", 1)>>,
   <<RawScalar("id", 1), RawScalar("c", 1)>>,
   <<RawScalar("id", 1), RawScalar("zz", 1)>>,
   <<Field("a", TRUE, "BETWEEN", TRUE, <<1>>)>>,
   <<RawScalar("id", 1), Field("a", TRUE, "BETWEEN", TRUE, <<1, 2>>)>>}

DaoInputs ==
  {[single |-> FALSE, items |-> its] : its \in UNION {[1..n -> DaoItems] : n \in 0..MaxBatch}}
    \cup {[single |-> TRUE, items |-> <<it>>] : it \in DaoItems}

\* registerHook called for each of the pairs on a new object, as createDao
\* does for a hooks configuration (lines 455-471; createDao leaves validate out)
RECURSIVE RegisterOnAll(_, _, _, _)
RegisterOnAll(hks, pairs, fn, validate) ==
  IF pairs = {} THEN hks
  ELSE LET pair == CHOOSE p \in pairs : TRUE
       IN  RegisterOnAll(registerHook(hks, pair[1], pair[2], fn, validate),
                         pairs \ {pair}, fn, validate)

\* hook tables: the constructor's, or a caller's function installed as the
\* before and after hook of every method, behind the default hook or not
DaoHookTables ==
  {DefaultHooks}
    \cup {RegisterOnAll(DefaultHooks, HookPairs, "f", validate) : validate \in BOOLEAN}

\* the order-by lists of the find calls: left out, valid, unknown column,
\* malformed item
DaoOrderBys == {<<>>} \cup OrderBys

InitDaoCall ==
  /\ input \in DaoInputs
  /\ opts = DefaultOpts /\ call = "none" /\ out = NoResult
  /\ hooks \in DaoHookTables /\ registered = <<>> /\ backend = <<>>
  /\ entity = NoRelations /\ db = EmptyDb /\ fetch = NoFetch
  /\ InitDatabase

(***************************************************************************)
(* The methods of the data-access object.  A method runs its before hook,  *)
(* builds the statement, binds the parameters, sends the request and runs  *)
(* its after hook; the backend accepts or rejects the request.             *)
(***************************************************************************)
DaoCallName(action) == "dao." \o action

DaoCall(action, o) ==
  /\ call = "none"
  /\ opts' = o
  /\ call' = DaoCallName(action)
  /\ \E before \in {runBefore(hooks[<<"before", action>>], ClassName, input, action,
                               RequiredColumn(action))} :
     \E query \in {DaoBuild(action, [single |-> before.single, items |-> before.items], o)} :
     \E request \in {bindParams(ClassName, query.kvs, action)} :
     \E r \in {[DaoPrepared(before, query, request)
                   EXCEPT !.steps = DaoSteps(action, before, query, request),
                          !.ran = before.ran, !.fnArg = before.fnArg]} :
       IF r.queried
         THEN /\ backend' = Append(backend, [action |-> action, sql |-> r.statements,
                                             inputs |-> r.inputs])
              /\ \E accepted \in BOOLEAN :
                   out' = runAfter(r, hooks[<<"after", action>>], Len(backend'), accepted)
         ELSE out' = r /\ backend' = backend
  /\ UNCHANGED <<input, hooks, registered, relVars, poolVars>>

\* a direct call of the public validateField
ValidateField ==
  /\ call = "none"
  /\ opts' = opts
  /\ call' = "validateField"
  /\ \E v \in {validateField(ClassName, input)} :
       out' = DaoResult(v.err, v.messages, v.items, Raised(v.err), <<>>, FALSE)
  /\ UNCHANGED <<input, daoVars, relVars, poolVars>>

DaoInsert == DaoCall("insert", DefaultOpts)

DaoUpdate == DaoCall("update", DefaultOpts)

DaoDelete == DaoCall("delete", DefaultOpts)

DaoFind ==
  \E ob \in DaoOrderBys :
    DaoCall("find", [DefaultOpts EXCEPT !.hasOrderBy = (ob # <<>>), !.orderBy = ob])

\* registerHook(hookType, action, fn, validate) on the object
RegisterHook ==
  /\ call = "none"
  /\ Len(registered) < MaxRegister
  /\ \E pair \in HookPairs, fn \in HookFns, validate \in BOOLEAN :
       /\ hooks' = registerHook(hooks, pair[1], pair[2], fn, validate)
       /\ registered' = Append(registered, [hookType |-> pair[1], action |-> pair[2],
                                            fn |-> fn, validate |-> validate])
  /\ UNCHANGED <<input, opts, call, out, backend, relVars, poolVars>>

\* a new object and the registerHook calls made on it
InitHooks == input = [single |-> FALSE, items |-> <<>>] /\ InitCall

NextHooks == RegisterHook

SpecHooks == InitHooks /\ [][NextHooks]_vars

NextDao ==
  \/ DaoInsert
  \/ DaoUpdate
  \/ DaoDelete
  \/ DaoFind
  \/ ValidateField

SpecDao == InitDaoCall /\ [][NextDao]_vars

(***************************************************************************)
(* What a compiled predicate means: Holds is TRUE when the fragment        *)
(* evaluates to TRUE on a row under the bound parameters (a comparison     *)
(* with NULL is not TRUE, an unbound placeholder never is).                *)
(***************************************************************************)
RowValues == Values \cup {Nil}

ColumnSet == {TableColumns[k] : k \in 1..Len(TableColumns)} \cup {"zz"}

Rows == [ColumnSet -> RowValues]

\* LIKE on one-character texts: every wildcard mode matches the text itself
LikeMatch(v, pattern) ==
  LET t == ToString(v) IN pattern \in {t, "%" \o t \o "%", t \o "%", "%" \o t}

Compare(operator, v, p) ==
  CASE operator = "=" -> v = p
    [] operator = "!=" -> v # p
    [] operator = "<" -> v < p
    [] operator = "<=" -> v <= p
    [] operator = ">" -> v > p
    [] operator = ">=" -> v >= p
    [] OTHER -> FALSE

Holds(frag, params, row) ==
  LET v == IF frag.kind = "const" THEN Nil ELSE row[frag.col]
      names == Flatten(frag.ph)
      allBound == \A k \in 1..Len(names) : names[k] \in DOMAIN params
      val(name) == params[name].value
      chunkHolds(c) ==
        IF frag.op = "IN"
          THEN \E k \in 1..Len(frag.ph[c]) : val(frag.ph[c][k]) = v
          ELSE \A k \in 1..Len(frag.ph[c]) : val(frag.ph[c][k]) # v
  IN CASE frag.kind = "const" -> frag.op = "1=1"
       [] frag.kind = "isNull" -> (frag.op = "IS NULL") <=> (v = Nil)
       [] frag.kind = "between" ->
            /\ allBound /\ v # Nil
            /\ LET p == val(names[1])
                   q == val(names[2])
               IN (IF p < q THEN p ELSE q) <= v /\ v <= (IF p > q THEN p ELSE q)
       [] frag.kind = "inList" ->
            /\ allBound /\ v # Nil
            /\ IF frag.glue = "AND"
                 THEN \A c \in 1..Len(frag.ph) : chunkHolds(c)
                 ELSE \E c \in 1..Len(frag.ph) : chunkHolds(c)
       [] frag.kind = "cmp" -> allBound /\ v # Nil /\ Compare(frag.op, v, val(names[1]))
       [] OTHER ->
            /\ allBound /\ v # Nil
            /\ \E k \in 1..Len(names) : LikeMatch(v, params[names[k]].pattern)

\* the WHERE clause: per-item groups OR'd, the fragments of a group AND'd
WhereHolds(where, params, row) ==
  \E g \in 1..Len(where) : \A c \in 1..Len(where[g]) : Holds(where[g][c], params, row)

\* what a field asks of a row, read off the field itself
FieldSatisfied(f, row) ==
  LET v == row[f.key]
      operator == FieldOperator(f)
      elems == {f.vals[k] : k \in 1..Len(f.vals)}
  IN IF f.isArr
       THEN IF Len(f.vals) = 0 THEN IsNegated(operator)
            ELSE IF operator = "BETWEEN"
              THEN v # Nil /\ \E p, q \in elems : p <= v /\ v <= q
            ELSE IF operator = "LIKE" THEN v \in elems
            ELSE IF IsNegated(operator) THEN v # Nil /\ v \notin elems
            ELSE v \in elems
     ELSE IF f.vals[1] = Nil THEN (IF IsNegated(operator) THEN v # Nil ELSE v = Nil)
     ELSE IF operator = "LIKE" THEN v = f.vals[1]
     ELSE v # Nil /\ Compare(operator, v, f.vals[1])

(***************************************************************************)
(* fetchWithRelations (src/src/lib/base.dao.ts).  The main rows are found  *)
(* first; the foreign finds are then started together and complete in any *)
(* order, each storing its rows under its table; the join follows the last *)
(* completion.  Every foreign table has a data-access object of the same   *)
(* entity shape, extraWhere is left out, and the backend answers a find    *)
(* with the rows of the table that satisfy its WHERE clause.               *)
(***************************************************************************)
\* the descriptors to load: all, or those of the tables in relations
SelectedForeignKeys(foreignKey, relations) ==
  IF Len(relations) > 0
    THEN SelectSeq(foreignKey, LAMBDA fk : InSeq(fk.table, Uniq(relations)))
    ELSE foreignKey

\* tableToValues[table]: the non-null values of the owning columns of every
\* descriptor of the table, in order of first occurrence
TableToValues(fks, mainRecords, table) ==
  Uniq(SelectSeq(Flatten([k \in 1..Len(fks) |->
                            IF fks[k].table = table
                              THEN [i \in 1..Len(mainRecords) |-> mainRecords[i][fks[k].column]]
                              ELSE <<>>]),
                 LAMBDA v : v # Nil))

buildInQuery(column, values) ==
  [single |-> TRUE, items |-> <<<<Field(column, TRUE, "IN", TRUE, values)>>>>]

\* the statement of find(data) on the object of a table
FindQuery(table, data) == selectByColumnsSql(table, EntityColumns, data, DefaultOpts)

\* the find a descriptor starts
ForeignFind(fks, mainRecords, k) ==
  FindQuery(fks[k].table,
            buildInQuery(fks[k].key, TableToValues(fks, mainRecords, fks[k].table)))

\* result.recordset: the rows of the table the statement selects
Recordset(rows, query) ==
  IF query.statements[1].hasWhere
    THEN SelectSeq(rows, LAMBDA r : WhereHolds(query.statements[1].where, query.params, r))
    ELSE rows

\* the request as the backend receives it
Sent(action, query) ==
  [action |-> action, sql |-> query.statements,
   inputs |-> bindParams(ClassName, query.kvs, action).inputs]

\* the final map over the main rows: for each descriptor in turn, the rows
\* stored under its table whose key equals the row's owning value
JoinRelated(mainRecords, fks, related) ==
  [i \in 1..Len(mainRecords) |->
     [rec |-> mainRecords[i],
      related |->
        [t \in {fks[k].table : k \in 1..Len(fks)} |->
           LET fk == fks[Max({k \in 1..Len(fks) : fks[k].table = t})]
               arr == IF related[t].stored THEN related[t].rows ELSE <<>>
               val == mainRecords[i][fk.column]
           IN IF val = Nil THEN <<>> ELSE SelectSeq(arr, LAMBDA record : record[fk.key] = val)]]]

\* main rows: the two owning columns, null or a value
MainRows == [a : Values \cup {Nil}, a_0 : Values \cup {Nil}]

\* the rows of the foreign tables
ForeignRows ==
  [t \in ForeignTables |->
     IF t = "p" THEN <<[id |-> 1, a |-> Nil], [id |-> 2, a |-> 1]>>
                ELSE <<[id |-> 1, a |-> 1]>>]

Dbs ==
  {[main |-> rows, foreign |-> ForeignRows] :
     rows \in UNION {[1..n -> MainRows] : n \in 0..MaxRows}}

\* foreign keys into two tables, twice into one table by the same key, and
\* twice into one table by different keys
RelationConfigs ==
  {[foreignKey |-> <<ForeignKey("a", "p", "id"), ForeignKey("a_0", "q", "id")>>],
   [foreignKey |-> <<ForeignKey("a", "p", "id"), ForeignKey("a_0", "p", "id")>>],
   [foreignKey |-> <<ForeignKey("a", "p", "id"), ForeignKey("a_0", "p", "a")>>]}

\* options.relations: left out, one table, or a table no descriptor names
RelationOptions == {<<>>, <<"p">>, <<"q", "q">>}

InitRel ==
  /\ input = [single |-> FALSE, items |-> <<>>]
  /\ opts = DefaultOpts /\ call = "none" /\ out = NoResult
  /\ hooks = DefaultHooks /\ registered = <<>> /\ backend = <<>>
  /\ entity \in RelationConfigs /\ db \in Dbs /\ fetch = NoFetch
  /\ InitDatabase

\* fetchWithRelations up to the start of the foreign finds
FetchWithRelations ==
  /\ call = "none"
  /\ call' = "fetchWithRelations"
  /\ \E relations \in RelationOptions :
     \E mainQuery \in {FindQuery(TableName, [single |-> FALSE, items |-> <<>>])} :
     \E mainRecords \in {Recordset(db.main, mainQuery)} :
     \E fks \in {SelectedForeignKeys(entity.foreignKey, relations)} :
       LET started == IF Len(mainRecords) = 0 THEN {}
                      ELSE {k \in 1..Len(fks) :
                              Len(TableToValues(fks, mainRecords, fks[k].table)) > 0}
           order == SortedSeq(started)
           related == [t \in ForeignTables |->
                         [stored |-> Len(mainRecords) > 0
                                       /\ \E k \in 1..Len(fks) :
                                            fks[k].table = t /\ k \notin started,
                          rows |-> <<>>]]
       IN /\ backend' = backend \o <<Sent("find", mainQuery)>>
                          \o [n \in 1..Len(order) |->
                                Sent("find", ForeignFind(fks, mainRecords, order[n]))]
          /\ fetch' = [phase |-> IF started = {} THEN "done" ELSE "pending",
                       mainRecords |-> mainRecords, fks |-> fks, pending |-> started,
                       related |-> related,
                       result |-> IF started = {} /\ Len(mainRecords) > 0
                                    THEN JoinRelated(mainRecords, fks, related)
                                    ELSE <<>>]
  /\ UNCHANGED <<input, opts, out, hooks, registered, entity, db, poolVars>>

\* one of the foreign finds completes and stores its rows; the last one to
\* complete lets the join run
ForeignFindCompletes ==
  /\ fetch.phase = "pending"
  /\ \E k \in fetch.pending :
     \E query \in {ForeignFind(fetch.fks, fetch.mainRecords, k)} :
     \E related \in {[fetch.related EXCEPT
                        ![fetch.fks[k].table] =
                           [stored |-> TRUE,
                            rows |-> Recordset(db.foreign[fetch.fks[k].table], query)]]} :
       fetch' = [fetch EXCEPT
                   !.related = related,
                   !.pending = fetch.pending \ {k},
                   !.phase = IF fetch.pending = {k} THEN "done" ELSE "pending",
                   !.result = IF fetch.pending = {k}
                                THEN JoinRelated(fetch.mainRecords, fetch.fks, related)
                                ELSE <<>>]
  /\ UNCHANGED <<input, opts, call, out, daoVars, entity, db, poolVars>>

NextRel ==
  \/ FetchWithRelations
  \/ ForeignFindCompletes

SpecRel == InitRel /\ [][NextRel]_vars

(***************************************************************************)
(* The single field of the one-field inputs and what was compiled and      *)
(* bound for it.                                                           *)
(***************************************************************************)
TheItem == input.items[Len(input.items)]
TheField == TheItem[1]
TheIndex == Len(input.items) - 1
OneField == Len(input.items) >= 1 /\ Len(TheItem) = 1

Succeeded == call # "none" /\ ~Failed(out)

OrderByValid ==
  \A k \in 1..Len(opts.orderBy) :
     opts.orderBy[k].form # "other" /\ InSeq(opts.orderBy[k].column, TableColumns)

\* the column of the field passes the whitelist check of the call
PassesWhitelist ==
  CASE call = "select" -> InSeq(TheField.key, TableColumns)
    [] call = "compile" -> ~opts.hasColumnsList \/ InSeq(TheField.key, opts.columnsList)
    [] OTHER -> TRUE

Compiled == call \in {"select", "compile"} /\ Succeeded
Bound == call \in {"select", "bind"} /\ Succeeded

CompiledFragment ==
  IF call = "compile" THEN out.groups[1].conds[1] ELSE out.statements[1].where[1][1]

RowOf(v) == [c \in ColumnSet |-> v]

BoundNames == [k \in 1..Len(out.kvs) |-> out.kvs[k].name]

ChunkCount(len, n) == (len + n - 1) \div n

\* the placeholders of an IN / NOT IN list: ceil(len / n) chunks of at most n
ChunkedAs(frag, len, n) ==
  /\ Len(frag.ph) = ChunkCount(len, n)
  /\ \A c \in 1..Len(frag.ph) : Len(frag.ph[c]) >= 1 /\ Len(frag.ph[c]) <= n
  /\ Len(Flatten(frag.ph)) = len

(***************************************************************************)
(* C2: for a non-empty array A with operator IN (or a raw array) and chunk *)
(* size N, the fragment is ceil(|A|/N) IN-lists of at most N placeholders  *)
(* each, OR'd; the bound parameters map the placeholders one-to-one, in    *)
(* order, onto the elements of A; the predicate holds exactly for the      *)
(* column values that are members of A.                                    *)
(***************************************************************************)
InArrayField ==
  OneField /\ TheField.isArr /\ Len(TheField.vals) > 0
    /\ FieldOperator(TheField) \in {"IN", "="}

C2_InListMatchesMembers ==
  InArrayField =>
    /\ (Compiled /\ PassesWhitelist) =>
         /\ CompiledFragment.kind = "inList" /\ CompiledFragment.op = "IN"
         /\ CompiledFragment.glue = "OR" /\ CompiledFragment.col = TheField.key
         /\ ChunkedAs(CompiledFragment, Len(TheField.vals), ChunkSizeOf(opts))
    /\ Bound =>
         /\ Len(out.kvs) = Len(TheField.vals)
         /\ \A k \in 1..Len(out.kvs) :
              out.kvs[k].value = TheField.vals[k] /\ out.kvs[k].key = TheField.key
         /\ \A j, k \in 1..Len(out.kvs) : j # k => out.kvs[j].name # out.kvs[k].name
    /\ (call = "select" /\ Succeeded) =>
         /\ Flatten(CompiledFragment.ph) = BoundNames
         /\ \A v \in Values :
              Holds(CompiledFragment, out.params, RowOf(v))
                <=> \E k \in 1..Len(TheField.vals) : TheField.vals[k] = v

C2_Witness ==
  /\ InArrayField /\ call = "select" /\ Succeeded
  /\ opts.inChunkSize = 2 /\ Len(TheField.vals) = 4
  /\ Len(CompiledFragment.ph) = 2

(***************************************************************************)
(* C3: for a non-empty array A with operator NOT IN the per-chunk NOT IN   *)
(* lists are AND'd; the predicate is the negation of the one compiled for  *)
(* IN on the same A and holds exactly for the column values that are       *)
(* members of no chunk.                                                    *)
(***************************************************************************)
NotInField ==
  OneField /\ TheField.isArr /\ Len(TheField.vals) > 0 /\ FieldOperator(TheField) = "NOT IN"

\* the same input with the operator of its field replaced
WithOperator(operator) ==
  [input EXCEPT !.items[Len(input.items)][1].operator = operator]

C3_NotInNegatesIn ==
  NotInField =>
    /\ (Compiled /\ PassesWhitelist) =>
         /\ CompiledFragment.kind = "inList" /\ CompiledFragment.op = "NOT IN"
         /\ CompiledFragment.glue = "AND" /\ CompiledFragment.col = TheField.key
         /\ ChunkedAs(CompiledFragment, Len(TheField.vals), ChunkSizeOf(opts))
    /\ (call = "select" /\ Succeeded) =>
         LET in == selectByColumnsSql(TableName, TableColumns, WithOperator("IN"), opts)
         IN \A v \in Values :
              /\ Holds(CompiledFragment, out.params, RowOf(v))
                   <=> \A k \in 1..Len(TheField.vals) : TheField.vals[k] # v
              /\ Holds(CompiledFragment, out.params, RowOf(v))
                   <=> ~Holds(in.statements[1].where[1][1], in.params, RowOf(v))

C3_Witness ==
  /\ NotInField /\ call = "select" /\ Succeeded
  /\ opts.inChunkSize = 2 /\ Len(TheField.vals) = 3
  /\ Len(CompiledFragment.ph) = 2

(***************************************************************************)
(* C4: an array under BETWEEN whose length is not 2.  The empty-array rule *)
(* is tested before the BETWEEN rule in both callbacks.                    *)
(***************************************************************************)
BetweenField == OneField /\ TheField.isArr /\ FieldOperator(TheField) = "BETWEEN"

NothingProduced == out.groups = <<>> /\ out.kvs = <<>> /\ out.statements = <<>>

\* C4 as stated: for BETWEEN with an array of length 0, 1 or 3+, the compiler
\* and the binder both fail with InvalidBetween naming the table and the
\* action, and produce no fragment and no parameter.
C4_AnyLengthButTwoFails ==
  (BetweenField /\ call \in {"compile", "bind"} /\ PassesWhitelist
     /\ Len(TheField.vals) # 2)
    => out.err = invalidBetween(TableName, "find") /\ NothingProduced

\* C4 amended: for BETWEEN with a non-empty array of length other than 2 the
\* binder fails with InvalidBetween naming the table and the action, and so
\* does the compiler when the column passes its whitelist check; neither
\* produces a fragment or a parameter.  An empty array under BETWEEN raises
\* no error: it compiles to 1=0 and binds nothing.
C4_NonEmptyLengthButTwoFails ==
  BetweenField =>
    /\ (call \in {"compile", "bind"} /\ PassesWhitelist
          /\ Len(TheField.vals) \notin {0, 2})
         => out.err = invalidBetween(TableName, "find") /\ NothingProduced
    /\ (call = "select" /\ OrderByValid /\ Len(TheField.vals) \notin {0, 2})
         => out.err = invalidBetween(TableName, "find") /\ NothingProduced
    /\ (call \in {"compile", "bind"} /\ PassesWhitelist /\ Len(TheField.vals) = 0)
         => /\ Succeeded /\ out.kvs = <<>>
            /\ call = "compile" => CompiledFragment = AlwaysFalse

C4_Witness ==
  /\ BetweenField /\ call = "compile" /\ PassesWhitelist
  /\ Len(TheField.vals) = 3 /\ out.err.kind = "InvalidBetween"

(***************************************************************************)
(* C5: an empty array compiles to the always-true predicate 1=1 when the   *)
(* operator is != or NOT IN and to the always-false predicate 1=0 for      *)
(* every other operator; the binder binds no parameter for it.             *)
(***************************************************************************)
EmptyArrayField == OneField /\ TheField.isArr /\ Len(TheField.vals) = 0

C5_EmptyArrayConstant ==
  EmptyArrayField =>
    /\ (call \in {"compile", "bind"} /\ PassesWhitelist) => Succeeded
    /\ (Compiled /\ PassesWhitelist) =>
         CompiledFragment =
           (IF FieldOperator(TheField) \in {"!=", "NOT IN"} THEN AlwaysTrue ELSE AlwaysFalse)
    /\ (Compiled /\ PassesWhitelist) =>
         \A v \in RowValues :
            Holds(CompiledFragment, out.params, RowOf(v))
              <=> FieldOperator(TheField) \in {"!=", "NOT IN"}
    /\ Bound => out.kvs = <<>> /\ DOMAIN out.params = {}

C5_Witness ==
  /\ EmptyArrayField /\ call = "compile" /\ PassesWhitelist
  /\ FieldOperator(TheField) = "NOT IN" /\ Succeeded
  /\ CompiledFragment = AlwaysTrue

(***************************************************************************)
(* C6: a scalar null value compiles to <col> IS NOT NULL when the operator *)
(* is != or NOT IN and to <col> IS NULL otherwise; no parameter is bound.  *)
(***************************************************************************)
NullField == OneField /\ ~TheField.isArr /\ TheField.vals[1] = Nil

C6_NullIsNullTest ==
  NullField =>
    /\ (call \in {"compile", "bind"} /\ PassesWhitelist) => Succeeded
    /\ (Compiled /\ PassesWhitelist) =>
         /\ CompiledFragment.kind = "isNull" /\ CompiledFragment.col = TheField.key
         /\ CompiledFragment.ph = <<>>
         /\ CompiledFragment.op =
              (IF FieldOperator(TheField) \in {"!=", "NOT IN"} THEN "IS NOT NULL" ELSE "IS NULL")
         /\ \A v \in RowValues :
              Holds(CompiledFragment, out.params, RowOf(v))
                <=> ((v = Nil) <=> FieldOperator(TheField) \notin {"!=", "NOT IN"})
    /\ Bound => out.kvs = <<>> /\ DOMAIN out.params = {}

C6_Witness ==
  /\ NullField /\ call = "select" /\ Succeeded
  /\ FieldOperator(TheField) = "!=" /\ CompiledFragment.op = "IS NOT NULL"

(***************************************************************************)
(* C8: fields outside the column whitelist.  selectByColumnsSql validates  *)
(* the order-by list and binds the parameters before it compiles the       *)
(* predicates.                                                             *)
(***************************************************************************)
UnknownField == OneField /\ ~InSeq(TheField.key, TableColumns)

WhitelistMode ==
  IF opts.onUnknownColumn = Undefined THEN DEFAULT_UNKNOWN_COLUMN ELSE opts.onUnknownColumn

\* the direct compiler calls: 1=1 in ignore mode, UnknownColumn in throw mode
WhitelistEnforced ==
  (UnknownField /\ call = "compile" /\ opts.hasColumnsList) =>
     IF WhitelistMode = "throw"
       THEN out.err = unknownColumn(TableName, "find", TheField.key) /\ NothingProduced
       ELSE Succeeded /\ CompiledFragment = AlwaysTrue

\* no fragment that came out names a column outside the whitelist in force
NoFragmentOutsideWhitelist ==
  /\ (call = "compile" /\ opts.hasColumnsList) =>
       \A g \in 1..Len(out.groups) : \A c \in 1..Len(out.groups[g].conds) :
          out.groups[g].conds[c].kind # "const"
            => InSeq(out.groups[g].conds[c].col, opts.columnsList)
  /\ (call = "select" /\ Succeeded /\ out.statements[1].hasWhere) =>
       \A g \in 1..Len(out.statements[1].where) :
          \A c \in 1..Len(out.statements[1].where[g]) :
             out.statements[1].where[g][c].kind # "const"
               => InSeq(out.statements[1].where[g][c].col, TableColumns)

\* C8 as stated: with a whitelist, a field outside it never produces a
\* fragment naming its column (1=1 in ignore mode, UnknownColumn in throw
\* mode), and a find with a field outside the table's column list fails with
\* UnknownColumn and returns no SQL.
C8_FindFailsWithUnknownColumn ==
  /\ WhitelistEnforced
  /\ NoFragmentOutsideWhitelist
  /\ (UnknownField /\ call = "select") =>
       out.err = unknownColumn(TableName, "find", TheField.key) /\ NothingProduced

\* C8 amended: with a whitelist, a field outside it never produces a fragment
\* naming its column (1=1 in ignore mode, UnknownColumn in throw mode); a
\* find with a field outside the table's column list always fails and returns
\* no SQL, with UnknownColumn unless an earlier step has failed first: the
\* order-by validation (InvalidOrderBy) or the parameter binder
\* (InvalidBetween for a non-empty BETWEEN array whose length is not 2).
C8_FindFailsBeforeSql ==
  /\ WhitelistEnforced
  /\ NoFragmentOutsideWhitelist
  /\ (UnknownField /\ call = "select") =>
       /\ NothingProduced
       /\ IF ~OrderByValid THEN out.err.kind = "InvalidOrderBy"
          ELSE IF BetweenField /\ Len(TheField.vals) \notin {0, 2}
            THEN out.err = invalidBetween(TableName, "find")
          ELSE out.err = unknownColumn(TableName, "find", TheField.key)

C8_Witness ==
  /\ UnknownField /\ call = "select"
  /\ out.err = unknownColumn(TableName, "find", "zz") /\ out.statements = <<>>

(***************************************************************************)
(* Batches of items through the statement builders.                        *)
(***************************************************************************)
SeqSet(s) == {s[k] : k \in 1..Len(s)}

Items == input.items

\* C1: within one QueryType produced by a statement builder no two bound
\* values receive the same parameter name, so getParams never overwrites one
\* bound value with another.
C1_ParamNamesUnique ==
  (call \in {"select", "insert", "update", "delete"} /\ Succeeded) =>
    /\ \A j, k \in 1..Len(out.kvs) : j # k => out.kvs[j].name # out.kvs[k].name
    /\ Cardinality(DOMAIN out.params) = Len(out.kvs)

\* C7: a row satisfies the WHERE clause built by selectByColumnsSql if and
\* only if there is at least one input item all of whose field predicates
\* the row satisfies (fields of one item AND'd, items OR'd).
C7_WhereIsOrOfAnds ==
  (call = "select" /\ Succeeded /\ Len(Items) >= 1) =>
    \A row \in Rows :
       (IF out.statements[1].hasWhere
          THEN WhereHolds(out.statements[1].where, out.params, row)
          ELSE TRUE)
         <=> \E i \in 1..Len(Items) :
                \A j \in 1..Len(Items[i]) : FieldSatisfied(Items[i][j], row)

(***************************************************************************)
(* C9: insertSql groups the items by column set.  The id column is omitted *)
(* from every item first, and an item left without a column has no entry   *)
(* in the column lists.                                                    *)
(***************************************************************************)
InsertColumns(i) == ItemKeys(Items[i]) \ {"id"}

\* the number of VALUES rows of statement s that belong to item i
RowsFor(s, i) ==
  Cardinality({k \in 1..Len(out.statements[s].rows) : out.statements[s].rows[k].id = i - 1})

\* one INSERT per distinct column set, its rows exactly the items having it
GroupedByColumnSet ==
  /\ \A s \in 1..Len(out.statements) :
       /\ out.statements[s].kind = "insert"
       /\ Cardinality(SeqSet(out.statements[s].columns)) = Len(out.statements[s].columns)
       /\ \A i \in 1..Len(Items) :
            RowsFor(s, i) =
              (IF InsertColumns(i) = SeqSet(out.statements[s].columns) THEN 1 ELSE 0)
       /\ Len(out.statements[s].rows) =
            Cardinality({i \in 1..Len(Items) :
                           InsertColumns(i) = SeqSet(out.statements[s].columns)})
  /\ \A s, t \in 1..Len(out.statements) :
       s # t => SeqSet(out.statements[s].columns) # SeqSet(out.statements[t].columns)

StatementsOf(i) == {s \in 1..Len(out.statements) : RowsFor(s, i) > 0}

\* C9 as stated: insertSql partitions the items by their exact column set,
\* independent of key order: one INSERT per distinct column set, one VALUES
\* row per item having that set and no other rows, and every item of the
\* batch appears in exactly one statement.
C9_EveryItemInOneStatement ==
  (call = "insert" /\ Succeeded) =>
    /\ GroupedByColumnSet
    /\ Len(out.statements) = Cardinality({InsertColumns(i) : i \in 1..Len(Items)})
    /\ \A i \in 1..Len(Items) : Cardinality(StatementsOf(i)) = 1

\* C9 amended: insertSql partitions the items that keep at least one column
\* once id is omitted by their exact column set, independent of key order:
\* one INSERT per distinct non-empty column set, one VALUES row per item
\* having that set and no other rows; each such item appears in exactly one
\* statement, and an item left with no column appears in none.
C9_ItemsWithColumnsInOneStatement ==
  (call = "insert" /\ Succeeded) =>
    /\ GroupedByColumnSet
    /\ Len(out.statements) =
         Cardinality({InsertColumns(i) : i \in 1..Len(Items)} \ {{}})
    /\ \A i \in 1..Len(Items) :
         Cardinality(StatementsOf(i)) = (IF InsertColumns(i) = {} THEN 0 ELSE 1)

\* two items with the same columns in different key order share a statement
C9_Witness ==
  /\ call = "insert" /\ Succeeded /\ Len(Items) = 2
  /\ Len(Items[1]) = 2 /\ Len(Items[2]) = 2
  /\ Items[1][1].key = Items[2][2].key /\ Items[1][2].key = Items[2][1].key
  /\ "id" \notin ItemKeys(Items[1])
  /\ Len(out.statements) = 1 /\ Len(out.statements[1].rows) = 2

(***************************************************************************)
(* C10: updateByKeySql expands an array key into one MERGE source row per  *)
(* key value.  What an item carries into its rows is the item itself, less *)
(* its id column when the key column is another column.                    *)
(***************************************************************************)
Carried(i) ==
  IF opts.keyColumn = "id" THEN Items[i]
  ELSE SelectSeq(Items[i], LAMBDA f : f.key # "id")

\* the number of rows item i stands for: none without a key value, one per
\* element of an array key, one for any other key
RowCount(i) ==
  IF KeyIsNil(Carried(i), opts.keyColumn) THEN 0
  ELSE LET f == ItemField(Carried(i), opts.keyColumn)
       IN IF f.isArr /\ ~f.fq THEN Len(f.vals) ELSE 1

\* the expanded list: <<item, position in its key array>> per row, in order
Expanded ==
  Flatten([i \in 1..Len(Items) |-> [k \in 1..RowCount(i) |-> <<i, k>>]])

HasParam(name, key, value) ==
  \E p \in 1..Len(out.kvs) :
     out.kvs[p].name = name /\ out.kvs[p].key = key /\ out.kvs[p].value = value

\* row n of the expanded list is the VALUES row with index n - 1 of the one
\* statement with the columns of its item: its placeholders carry that
\* index, and so do the parameters holding its key value and its other
\* scalar values
RowAsExpanded(n) ==
  LET i == Expanded[n][1]
      k == Expanded[n][2]
      index == ToString(n - 1)
  IN /\ \E s \in 1..Len(out.statements) :
          /\ SeqSet(out.statements[s].columns) = ItemKeys(Carried(i))
          /\ out.statements[s].keyColumn = opts.keyColumn
          /\ \E r \in 1..Len(out.statements[s].rows) :
               /\ out.statements[s].rows[r].id = n - 1
               /\ out.statements[s].rows[r].ph =
                    [c \in 1..Len(out.statements[s].columns) |->
                       out.statements[s].columns[c] \o "_" \o index]
     /\ \A j \in 1..Len(Carried(i)) :
          LET f == Carried(i)[j]
          IN IF f.key = opts.keyColumn /\ f.isArr /\ ~f.fq
               THEN HasParam(f.key \o "_" \o index, f.key, f.vals[k])
             ELSE (~f.isArr /\ ~f.fq /\ f.vals[1] # Nil)
                    => HasParam(f.key \o "_" \o index, f.key, f.vals[1])

StatementRows ==
  Flatten([s \in 1..Len(out.statements) |->
             [r \in 1..Len(out.statements[s].rows) |-> out.statements[s].rows[r].id]])

IdsOf(i) ==
  IF KeyIsNil(Items[i], "id") THEN {} ELSE SeqSet(ItemField(Items[i], "id").vals)

IdUnion == UNION {IdsOf(i) : i \in 1..Len(Items)}

\* the input with every field but id taken away
IdFieldsOnly ==
  [input EXCEPT !.items = [i \in 1..Len(Items) |->
                             SelectSeq(Items[i], LAMBDA f : f.key = "id")]]

\* C11: deleteByIdSql merges the id values of all items into one list
\* without duplicates and compiles exactly one DELETE whose key list is that
\* union, binding one parameter per distinct id; non-id fields are ignored.
C11_DeleteKeyListIsIdUnion ==
  call = "delete" =>
    /\ Succeeded
    /\ Len(out.statements) = 1
    /\ out.statements[1].kind = "delete" /\ out.statements[1].table = TableName
    /\ Len(out.statements[1].where) = 1 /\ Len(out.statements[1].where[1]) = 1
    /\ LET frag == out.statements[1].where[1][1]
       IN IF IdUnion = {}
            THEN frag = AlwaysFalse
            ELSE /\ frag.kind = "inList" /\ frag.op = "IN" /\ frag.col = "id"
                 /\ frag.glue = "OR"
                 /\ Flatten(frag.ph) = BoundNames
    /\ Len(out.kvs) = Cardinality(IdUnion)
    /\ {out.kvs[k].value : k \in 1..Len(out.kvs)} = IdUnion
    /\ \A k \in 1..Len(out.kvs) : out.kvs[k].key = "id"
    /\ Cardinality(DOMAIN out.params) = Cardinality(IdUnion)
    /\ \A row \in Rows :
         WhereHolds(out.statements[1].where, out.params, row) <=> row["id"] \in IdUnion
    /\ out = WithGroups(deleteByIdSql(TableName, IdFieldsOnly, opts), <<>>)

\* overlapping ids, a scalar and an array, next to fields that are not id
C11_Witness ==
  /\ call = "delete" /\ Succeeded /\ Len(Items) = 2
  /\ IdsOf(1) = {1} /\ IdsOf(2) = {1, 2}
  /\ Len(Items[1]) = 2 /\ Len(Items[2]) = 2
  /\ Len(out.kvs) = 2 /\ Len(out.statements) = 1

(***************************************************************************)
(* C12: the default ORDER BY of a paged find.  buildOrderBySql tests skip  *)
(* and take for truthiness, the paging clause tests them for null.         *)
(***************************************************************************)
NoExplicitOrderBy == Len(opts.orderBy) = 0

PagingRequested == opts.skip # <<>> \/ opts.take # <<>>

DefaultOrderBy ==
  <<[column |-> IF opts.defaultOrderBy = Undefined THEN "created_at" ELSE opts.defaultOrderBy,
     direction |-> "ASC"]>>

\* C12: in selectByColumnsSql, whenever skip or take is supplied (any number,
\* 0 included) and no explicit orderBy is given, the statement has the
\* default ORDER BY [created_at] ASC (or the configured default column)
\* together with the OFFSET/FETCH clause; when neither is supplied and no
\* orderBy is given it has neither an ORDER BY nor a paging clause.
C12_PagingHasDefaultOrderBy ==
  (call = "select" /\ Succeeded /\ NoExplicitOrderBy) =>
    IF PagingRequested
      THEN /\ out.statements[1].orderBy = DefaultOrderBy
           /\ out.statements[1].paging =
                <<IF opts.skip = <<>> THEN 0 ELSE opts.skip[1],
                  IF opts.take = <<>> THEN DEFAULT_TAKE ELSE opts.take[1]>>
      ELSE out.statements[1].orderBy = <<>> /\ out.statements[1].paging = <<>>

(***************************************************************************)
(* Claims on the methods of the data-access object (SpecDao).              *)
(***************************************************************************)
DaoCalled == call \in {DaoCallName(action) : action \in Methods}

\* the method of the call
DaoAction == CHOOSE action \in Methods : call = DaoCallName(action)

\* the error kinds of the spec in the names of SqlError and DaoError
MissingRequiredColumn == {"noId", "noColumn"}
ValidationFailed == {"validateField"}
TypeBindingMissing == {"sqlTypeNotFound"}

FailFastErrors ==
  {"UnknownColumn", "InvalidBetween", "InvalidOrderBy"}
    \cup MissingRequiredColumn \cup ValidationFailed \cup TypeBindingMissing

\* C13: in a DAO insert, update, delete or find call that raises
\* UnknownColumn, InvalidBetween, InvalidOrderBy, MissingRequiredColumn,
\* ValidationFailed or TypeBindingMissing, request.query has not been called:
\* the backend has received nothing.
C13_FailFastBeforeQuery ==
  (DaoCalled /\ out.err.kind \in FailFastErrors) => backend = <<>>

\* a column without backend type stops a call that has bound a parameter
C13_Witness ==
  /\ DaoCalled /\ out.err.kind \in TypeBindingMissing
  /\ Len(out.inputs) > 0 /\ backend = <<>>

\* the fields of an item that are not null or undefined
NonNilFields(item) == SelectSeq(item, LAMBDA f : ~IsNilField(f))

\* an item that keeps a field once its null fields are dropped, but no id
LacksId(item) == Len(NonNilFields(item)) > 0 /\ "id" \notin ItemKeys(NonNilFields(item))

HasDefaultBeforeHook == hooks[<<"before", DaoAction>>] = Hook("default", FALSE)

UpdateOrDelete == DaoCalled /\ DaoAction \in {"update", "delete"} /\ HasDefaultBeforeHook

\* C14: an update or delete under the default before hook whose batch has
\* an item that lacks id, null fields dropped, fails with the missing-id
\* error and sends no statement.
C14_AnyItemWithoutIdFails ==
  (UpdateOrDelete /\ \E i \in 1..Len(Items) : LacksId(Items[i])) =>
    (out.err.kind = "noId" /\ backend = <<>>)

\* the fields of an item the schema checks in one object, and its arrays
RestFields(item) == SelectSeq(item, LAMBDA f : ~(~f.fq /\ f.isArr))
ArrayFields(item) == SelectSeq(item, LAMBDA f : ~f.fq /\ f.isArr)

\* the positions <<field, element>> of the array elements the schema rejects
RejectedElements(item) ==
  {p \in (1..Len(ArrayFields(item))) \X (1..MaxLen) :
     p[2] <= Len(ArrayFields(item)[p[1]].vals) /\ ArrayFields(item)[p[1]].vals[p[2]] = Rejected}

RestRejected(item) ==
  \E j \in 1..Len(RestFields(item)) : InSeq(Rejected, RestFields(item)[j].vals)

\* the number of failed checks of an item
FailedChecks(item) ==
  (IF RestRejected(item) THEN 1 ELSE 0) + Cardinality(RejectedElements(item))

MessagesOf(i) == {k \in 1..Len(out.messages) : out.messages[k].key = ToString(i - 1)}

\* C15: validateField on a batch with a failed check throws one error that
\* carries, for every item, one message per failed check of the item under
\* the item's index, and returns no item; on a batch without a failed check
\* it returns the items of the batch, unchanged and in order.
C15_ValidateAllOrNothing ==
  call = "validateField" =>
    IF \E i \in 1..Len(Items) : FailedChecks(Items[i]) > 0
      THEN /\ out.err.kind \in ValidationFailed
           /\ out.cleaned = <<>>
           /\ \A i \in 1..Len(Items) : Cardinality(MessagesOf(i)) = FailedChecks(Items[i])
           /\ \A k \in 1..Len(out.messages) :
                /\ \E i \in 1..Len(Items) : k \in MessagesOf(i)
                /\ Len(out.messages[k].value) > 0
      ELSE /\ out.err = NoError
           /\ out.messages = <<>>
           /\ out.cleaned = Items

\* two failing items, one of them with three failed checks
C15_Witness ==
  /\ call = "validateField" /\ out.err.kind \in ValidationFailed
  /\ Len(Items) = 2
  /\ \E i, j \in 1..2 : i # j /\ FailedChecks(Items[i]) = 3 /\ FailedChecks(Items[j]) = 1
  /\ Len(out.messages) = 4

\* the three ways a column has no backend type
AbsentFromSchema(key) == ~InSeq(key, EntityColumns)
NoSqlTypeMeta(key) == InSeq(key, EntityColumns) /\ SqlTypeMeta(key) = Undefined
NoBackendType(key) ==
  InSeq(key, EntityColumns) /\ SqlTypeMeta(key) # Undefined /\ SqlTypeMeta(key) \notin BackendTypes

Unresolvable(key) == AbsentFromSchema(key) \/ NoSqlTypeMeta(key) \/ NoBackendType(key)

\* the columns of the compiled parameters that reach bindParams
BoundColumns == {out.kvs[k].key : k \in 1..Len(out.kvs)}

\* C20: a DAO call whose compiled parameters include one of a column without
\* resolvable backend type (absent from the schema, without sqlType, or
\* with a sqlType that names no backend type) fails with the
\* SQL-type-not-found error naming such a column, and sends no statement.
C20_UnresolvableTypeFailsNamed ==
  (DaoCalled /\ \E key \in BoundColumns : Unresolvable(key)) =>
    /\ out.err.kind \in TypeBindingMissing
    /\ out.err.item \in BoundColumns /\ Unresolvable(out.err.item)
    /\ backend = <<>>

(***************************************************************************)
(* Claims on the hook table (SpecHooks).                                   *)
(***************************************************************************)
\* the registerHook calls made for a pair, by position
RegisteredFor(pair) ==
  {k \in 1..Len(registered) :
     registered[k].hookType = pair[1] /\ registered[k].action = pair[2]}

LastRegistered(pair) == registered[Max(RegisteredFor(pair))]

HooksAreLastRegistered ==
  \A pair \in HookPairs :
    IF RegisteredFor(pair) = {}
      THEN hooks[pair] = DefaultHooks[pair]
      ELSE /\ hooks[pair].fn = LastRegistered(pair).fn
           /\ hooks[pair].validate = (LastRegistered(pair).validate /\ pair[1] = "before")

OtherPairsUnchanged ==
  registered' # registered =>
    \A pair \in HookPairs :
      pair # <<registered'[Len(registered')].hookType, registered'[Len(registered')].action>>
        => hooks'[pair] = hooks[pair]

\* C16: the hook stored for a (phase, action) pair is the function of the
\* last registerHook call for that pair, or the constructor's default when
\* there was none, and a registerHook call for one pair leaves the hooks of
\* the seven other pairs as they were.
C16_HooksIndependentPerPair == []HooksAreLastRegistered /\ [][OtherPairsUnchanged]_vars

\* the same pair registered twice with different functions, another pair
\* still at its default
C16_Witness ==
  /\ Len(registered) = 2
  /\ registered[1].hookType = registered[2].hookType
  /\ registered[1].action = registered[2].action
  /\ registered[1].fn # registered[2].fn
  /\ hooks[<<registered[2].hookType, registered[2].action>>].fn = registered[2].fn

(***************************************************************************)
(* Claims on fetchWithRelations (SpecRel).                                 *)
(***************************************************************************)
Fetching == call = "fetchWithRelations"

Fetched == Fetching /\ fetch.phase = "done"

SelectedTables == {fetch.fks[k].table : k \in 1..Len(fetch.fks)}

\* the finds the backend received for a foreign table, by position in its log
QueriesTo(t) == {n \in 1..Len(backend) : backend[n].sql[1].table = t}

\* the values bound to the IN list of a find
InList(n) == {backend[n].inputs[k].value : k \in 1..Len(backend[n].inputs)}

\* the non-null values the main rows hold in the owning columns of a table
OwningValues(t) ==
  {fetch.mainRecords[i][fetch.fks[k].column] :
     <<i, k>> \in {p \in (1..Len(fetch.mainRecords)) \X (1..Len(fetch.fks)) :
                     fetch.fks[p[2]].table = t}} \ {Nil}

\* C17: fetchWithRelations sends exactly one find per foreign table of the
\* selected descriptors that has a non-null owning value, with the distinct
\* non-null owning values as its IN list; it sends none for a table whose
\* owning values are all null, and none at all when there is no main row.
C17_OneFindPerForeignTable ==
  Fetching =>
    /\ \A t \in ForeignTables :
         IF t \in SelectedTables /\ OwningValues(t) # {}
           THEN /\ Cardinality(QueriesTo(t)) = 1
                /\ \A n \in QueriesTo(t) :
                     /\ InList(n) = OwningValues(t)
                     /\ Len(backend[n].inputs) = Cardinality(OwningValues(t))
           ELSE QueriesTo(t) = {}
    /\ (Len(fetch.mainRecords) = 0 => Len(backend) = 1)

\* the rows of a descriptor's table whose key column holds the value
RowsWithKey(fk, val) ==
  IF val = Nil THEN <<>>
  ELSE SelectSeq(db.foreign[fk.table], LAMBDA record : record[fk.key] = val)

\* C18: in the result of fetchWithRelations, for every main row and every
\* selected descriptor, the related list under the descriptor's table is the
\* rows of that table whose key column equals the row's owning value; it is
\* empty when the value is null or no row matches.
C18_RelatedListMatchesOwningValue ==
  (Fetched /\ Len(fetch.mainRecords) > 0) =>
    \A i \in 1..Len(fetch.mainRecords) : \A k \in 1..Len(fetch.fks) :
      /\ fetch.result[i].rec = fetch.mainRecords[i]
      /\ fetch.result[i].related[fetch.fks[k].table]
           = RowsWithKey(fetch.fks[k], fetch.mainRecords[i][fetch.fks[k].column])

\* the result when the finds complete in the order of their descriptors
RECURSIVE StoredInOrder(_, _)
StoredInOrder(order, related) ==
  IF Len(order) = 0 THEN related
  ELSE LET fk == fetch.fks[Head(order)]
           query == ForeignFind(fetch.fks, fetch.mainRecords, Head(order))
       IN StoredInOrder(Tail(order),
                        [related EXCEPT ![fk.table] =
                           [stored |-> TRUE,
                            rows |-> Recordset(db.foreign[fk.table], query)]])

\* what related held when the finds were started
RelatedAtStart ==
  [t \in ForeignTables |->
     [stored |-> fetch.related[t].stored /\ QueriesTo(t) = {}, rows |-> <<>>]]

ResultInDescriptorOrder ==
  JoinRelated(fetch.mainRecords, fetch.fks,
              StoredInOrder(SortedSeq({k \in 1..Len(fetch.fks) :
                                         QueriesTo(fetch.fks[k].table) # {}}),
                            RelatedAtStart))

\* C19: whatever the order in which the foreign finds complete, the rows
\* fetchWithRelations returns and their related lists are the same: they are
\* those of the completion in descriptor order.
C19_ResultIndependentOfCompletionOrder ==
  (Fetched /\ Len(fetch.mainRecords) > 0) => fetch.result = ResultInDescriptorOrder

(***************************************************************************)
(* Database.getPool (src/src/lib/db.ts 50-77), step by step: a call is     *)
(* suspended at each await, and the calls of several callers interleave.   *)
(***************************************************************************)
MaxPools == 2     \* the pools sql.connect can produce are 1..MaxPools
MaxRetries == 2   \* a direct getPool call is given 0..MaxRetries retries
DEFAULT_RETRIES == 5
STATUS_RETRIES == 1

\* the rest of the program is not called while the Database is exercised
DatabaseOnly == UNCHANGED <<input, opts, call, out, daoVars, relVars>>

\* lines 50-56, up to the first await: the stored pool is returned when it
\* is connected; otherwise sql.connect is called and the call waits for it
\* a getPool that connects whatever pool is stored
AlwaysConnect(frame, retries) ==
  [frame EXCEPT !.pc = "connecting", !.retries = retries, !.attempts = @ + 1]

getPool(frame, retries) ==
  IF pool # NoPool /\ connected
    THEN [frame EXCEPT !.pc = "gotPool", !.retries = retries, !.ret = pool]
    ELSE [frame EXCEPT !.pc = "connecting", !.retries = retries, !.attempts = @ + 1]

\* a caller starts an operation, which calls getPool with `retries`
StartCall(c, op, retries) ==
  /\ proc[c].op = "none"
  /\ proc' = [proc EXCEPT ![c] = getPool([IdleCaller EXCEPT !.op = op,
                                                            !.given = retries], retries)]
  /\ UNCHANGED <<pool, connected>>
  /\ DatabaseOnly

\* lines 56-65: sql.connect resolves with a connected pool (the library's
\* global pool of an earlier connect, or a new one); it is stored, given the
\* error handler and returned
ConnectResolves(c) ==
  /\ proc[c].pc = "connecting"
  /\ \E id \in 1..MaxPools :
       /\ pool' = id
       /\ connected' = TRUE
       /\ proc' = [proc EXCEPT ![c].pc = "gotPool", ![c].ret = id]
  /\ DatabaseOnly

\* lines 66-76: sql.connect rejects; with retries left the call waits `delay`,
\* otherwise it resets the stored pool and throws the connection error
ConnectRejects(c) ==
  /\ proc[c].pc = "connecting"
  /\ IF proc[c].retries > 0
       THEN proc' = [proc EXCEPT ![c].pc = "delay"] /\ UNCHANGED <<pool, connected>>
       ELSE /\ pool' = NoPool
            /\ connected' = FALSE
            /\ proc' = [proc EXCEPT ![c].pc = "failed", ![c].err = connectionError]
  /\ DatabaseOnly

\* lines 69-71: the delay has passed: return this.getPool(retries - 1, delay)
DelayElapses(c) ==
  /\ proc[c].pc = "delay"
  /\ proc' = [proc EXCEPT ![c] = getPool(@, @.retries - 1)]
  /\ UNCHANGED <<pool, connected>>
  /\ DatabaseOnly

\* lines 58-62: a pool that got the handler emits 'error': this.pool = null
\* (whichever pool is stored by then)
PoolErrorEvent ==
  /\ pool # NoPool
  /\ pool' = NoPool
  /\ connected' = FALSE
  /\ UNCHANGED proc
  /\ DatabaseOnly

\* the stored pool loses its connection: this.pool.connected becomes false
\* (the connection of a pool that is no longer stored is never read)
PoolDisconnects ==
  /\ pool # NoPool /\ connected
  /\ connected' = FALSE
  /\ UNCHANGED <<pool, proc>>
  /\ DatabaseOnly

\* a caller (a data-access method, or a direct user) calls db.getPool(retries)
GetPool(c) ==
  \E retries \in 0..MaxRetries : StartCall(c, "getPool", retries)

\* the steps of getPool that a call takes by itself
GetPoolStep(c) ==
  \/ ConnectResolves(c)
  \/ ConnectRejects(c)
  \/ DelayElapses(c)

\* a caller has its outcome and may make another call
Finished(c) ==
  \/ proc[c].op = "getPool" /\ proc[c].pc \in {"gotPool", "failed"}
  \/ proc[c].op = "statusFull" /\ proc[c].pc = "responded"
  \/ proc[c].op = "withTransaction" /\ proc[c].pc \in {"returned", "rejected"}

Settle(c) ==
  /\ Finished(c)
  /\ proc' = [proc EXCEPT ![c] = IdleCaller]
  /\ UNCHANGED <<pool, connected>>
  /\ DatabaseOnly

(***************************************************************************)
(* statusFullHandler with checkDb and checkBlob (functions/status,         *)
(* src/unnamed/part_002 12-39 and 57-80).                                   *)
(***************************************************************************)
\* Promise.all([checkDb(), checkBlob()]): checkDb runs up to the await in
\* getPool, then checkBlob runs up to its own await: no connection string,
\* or a client that cannot be built from it, is 'bad'; otherwise
\* container.exists() is awaited
StatusFullHandler(c) ==
  /\ proc[c].op = "none"
  /\ \E outcome \in {"no conn", "client throws", "client"} :
       proc' = [proc EXCEPT ![c] =
                  getPool([IdleCaller EXCEPT !.op = "statusFull",
                                             !.given = STATUS_RETRIES,
                                             !.blobStatus = IF outcome = "client"
                                                              THEN "exists" ELSE "bad",
                                             !.events = {outcome}],
                          STATUS_RETRIES)]
  /\ UNCHANGED <<pool, connected>>
  /\ DatabaseOnly

\* container.exists() settles: true is 'good'; false or a rejection is 'bad'
CheckBlobExists(c) ==
  /\ proc[c].op = "statusFull" /\ proc[c].blobStatus = "exists"
  /\ \E outcome \in {"true", "false", "rejects"} :
       proc' = [proc EXCEPT ![c].blobStatus = IF outcome = "true" THEN "good" ELSE "bad",
                            ![c].events = @ \cup {"exists " \o outcome}]
  /\ UNCHANGED <<pool, connected>>
  /\ DatabaseOnly

\* checkDb after db.getPool(1, 500): a thrown connection error is 'bad';
\* with a pool, SELECT 1 is queried and only a non-empty recordset is 'good'
\* (the pool and the error are locals of checkDb, gone when it returns)
CheckDb(c) ==
  /\ proc[c].op = "statusFull" /\ proc[c].pc \in {"gotPool", "failed"}
  /\ \E outcome \in IF proc[c].pc = "failed" THEN {"getPool throws"}
                     ELSE {"query rows", "query empty", "query rejects"} :
       proc' = [proc EXCEPT ![c] =
                  [IdleCaller EXCEPT !.op = "statusFull",
                                     !.pc = "checked",
                                     !.dbStatus = IF outcome = "query rows"
                                                    THEN "good" ELSE "bad",
                                     !.blobStatus = proc[c].blobStatus,
                                     !.events = proc[c].events \cup {outcome}]]
  /\ UNCHANGED <<pool, connected>>
  /\ DatabaseOnly

\* a response that is 'ok' as soon as one dependency is good
StatusAnyGood(dbStatus, blobStatus) ==
  LET anyGood == dbStatus = "good" \/ blobStatus = "good"
  IN  [status |-> IF anyGood THEN 200 ELSE 503,
       body |-> [status |-> IF anyGood THEN "ok" ELSE "degraded",
                 deps |-> [database |-> dbStatus, blob |-> blobStatus]]]

\* lines 61-79: the response built from the two outcomes
StatusResponse(dbStatus, blobStatus) ==
  LET allGood == dbStatus = "good" /\ blobStatus = "good"
  IN  [status |-> IF allGood THEN 200 ELSE 503,
       body |-> [status |-> IF allGood THEN "ok" ELSE "degraded",
                 deps |-> [database |-> dbStatus, blob |-> blobStatus]]]

\* both checks have settled: the handler resolves with its response
StatusRespond(c) ==
  /\ proc[c].op = "statusFull" /\ proc[c].pc = "checked"
  /\ proc[c].blobStatus \in {"good", "bad"}
  /\ proc' = [proc EXCEPT ![c].pc = "responded",
                          ![c].response = StatusResponse(proc[c].dbStatus,
                                                         proc[c].blobStatus)]
  /\ UNCHANGED <<pool, connected>>
  /\ DatabaseOnly

\* the caller that serves the status route; the other one makes data-access
\* calls on the same singleton meanwhile
StatusCallers == {"c1"}

StatusStep(c) ==
  \/ GetPoolStep(c)
  \/ CheckBlobExists(c)
  \/ CheckDb(c)
  \/ StatusRespond(c)

NextStatus ==
  \/ \E c \in StatusCallers : StatusFullHandler(c)
  \/ \E c \in Callers \ StatusCallers : GetPool(c)
  \/ \E c \in Callers : ConnectResolves(c)
  \/ \E c \in Callers : ConnectRejects(c)
  \/ \E c \in Callers : DelayElapses(c)
  \/ \E c \in Callers : CheckBlobExists(c)
  \/ \E c \in Callers : CheckDb(c)
  \/ \E c \in Callers : StatusRespond(c)
  \/ \E c \in Callers : Settle(c)
  \/ PoolErrorEvent
  \/ PoolDisconnects

\* every await of a handler settles: no call is suspended for ever
StatusFairness == \A c \in StatusCallers : WF_vars(StatusStep(c))

InitStatus == input = [single |-> FALSE, items |-> <<>>] /\ InitCall

SpecStatus == InitStatus /\ [][NextStatus]_vars /\ StatusFairness

(***************************************************************************)
(* C21: the full status check.                                             *)
(***************************************************************************)
Responded(c) == proc[c].op = "statusFull" /\ proc[c].pc = "responded"

Happened(c, event) == event \in proc[c].events

\* the database check connected (or found the pool) and its query gave rows
DatabaseGood(c) == Happened(c, "query rows")

\* the blob check built its client and the container lookup answered true
BlobGood(c) == Happened(c, "exists true")

Outcome(good) == IF good THEN "good" ELSE "bad"

ResponseFollowsChecks ==
  \A c \in Callers :
    Responded(c) =>
      LET r == proc[c].response
      IN  /\ r.body.deps.database = Outcome(DatabaseGood(c))
          /\ r.body.deps.blob = Outcome(BlobGood(c))
          /\ IF DatabaseGood(c) /\ BlobGood(c)
               THEN r.status = 200 /\ r.body.status = "ok"
               ELSE r.status = 503 /\ r.body.status = "degraded"

EveryHandlerResponds ==
  \A c \in StatusCallers : (proc[c].op = "statusFull") ~> Responded(c)

\* C21: statusFullHandler always resolves with a response: 200 'ok' exactly
\* when the database check and the blob check both succeeded, else 503
\* 'degraded'; each dependency's entry is that check's own outcome, and any
\* failure to connect, to query or to look the container up is 'bad'.
C21_StatusFullReportsBothChecks == []ResponseFollowsChecks /\ EveryHandlerResponds

\* the handler answered 503 with a good database and a container lookup
\* that failed, after another caller's pool was found on the retry
C21_Witness ==
  /\ Responded("c1")
  /\ proc["c1"].response.status = 503
  /\ proc["c1"].response.body.deps = [database |-> "good", blob |-> "bad"]
  /\ DatabaseGood("c1") /\ Happened("c1", "exists rejects")
  /\ proc["c2"].op = "getPool" /\ proc["c2"].ret = pool /\ pool # NoPool

(***************************************************************************)
(* C22: the order of the steps of a data-access call.                      *)
(***************************************************************************)
StepOrder == <<"before", "compile", "bind", "execute", "after">>

StepRank(step) == CHOOSE k \in 1..Len(StepOrder) : StepOrder[k] = step

StepTaken(step) == \E k \in 1..Len(out.steps) : out.steps[k] = step

StepsInOrder ==
  \A i, j \in 1..Len(out.steps) :
    i < j => StepRank(out.steps[i]) < StepRank(out.steps[j])

AfterHookOfCall == hooks[<<"after", DaoAction>>].fn

\* C22: a data-access call takes its steps in the order before hook,
\* compile, bind, execute, after hook; it sends its statement at most once;
\* its after hook runs once, only after an accepted execution and on that
\* execution's result; a rejected execution gives the caller the backend's
\* error and runs no after hook.
C22_StepsInOrderOneExecution ==
  DaoCalled =>
    /\ StepsInOrder
    /\ Len(out.steps) > 0 /\ out.steps[1] = "before"
    /\ Len(backend) <= 1
    /\ StepTaken("execute") <=> Len(backend) = 1
    /\ StepTaken("execute") => StepTaken("compile")
    /\ StepTaken("after") =>
         /\ StepTaken("execute") /\ out.err = NoError
         /\ out.after = AfterHookOfCall /\ out.afterArg = Len(backend)
    /\ (StepTaken("execute") /\ out.err = NoError /\ AfterHookOfCall # Undefined)
         => StepTaken("after")
    /\ (StepTaken("execute") /\ out.err # NoError)
         => out.err = RequestError /\ ~StepTaken("after") /\ out.after = Undefined

\* an update whose statement was accepted and whose after hook then ran
C22_Witness ==
  /\ call = DaoCallName("update")
  /\ out.steps = StepOrder
  /\ out.after = "f" /\ out.afterArg = 1
  /\ out.err = NoError

\* a find whose statement the backend rejected, with an after hook registered
C22_RejectedWitness ==
  /\ call = DaoCallName("find")
  /\ out.err = RequestError /\ Len(backend) = 1
  /\ AfterHookOfCall = "f" /\ ~StepTaken("after")

(***************************************************************************)
(* C23: a registered before hook with and without the default validation.  *)
(***************************************************************************)
BeforeHookOfCall == hooks[<<"before", DaoAction>>]

\* what the default before hook returns or throws on the data of the call
DefaultOnInput ==
  defaultBeforeHook(ClassName, input, DaoAction, RequiredColumn(DaoAction))

RegisteredBefore == DaoCalled /\ BeforeHookOfCall.fn \in HookFns

\* C23: after registerHook('before', action, fn, true) a call of the action
\* runs the default before hook first and then fn on what it returned, and
\* does not invoke fn when the default hook throws; after a registration
\* with validate false fn replaces the default hook: no cleaning, no
\* required-column check and no validation run for that action.
C23_ValidateWrapsDefaultElseReplaces ==
  RegisteredBefore =>
    IF BeforeHookOfCall.validate
      THEN IF Failed(DefaultOnInput)
             THEN /\ out.ran = <<"default">>
                  /\ out.err = DefaultOnInput.err
                  /\ backend = <<>>
             ELSE /\ out.ran = <<"default", BeforeHookOfCall.fn>>
                  /\ out.fnArg = DefaultOnInput.items
      ELSE /\ out.ran = <<BeforeHookOfCall.fn>>
           /\ out.fnArg = input.items
           /\ out.err.kind \notin (MissingRequiredColumn \cup ValidationFailed)

\* an update under a validating registration: the default hook dropped the
\* item without id before fn saw the batch
C23_Witness ==
  /\ call = DaoCallName("update")
  /\ BeforeHookOfCall = Hook("f", TRUE)
  /\ out.ran = <<"default", "f">>
  /\ Len(input.items) = 2 /\ Len(out.fnArg) = 1

\* a delete under a replacing registration: fn got the item that the default
\* hook would have refused, and the statement was sent
C23_ReplacedWitness ==
  /\ call = DaoCallName("delete")
  /\ BeforeHookOfCall = Hook("f", FALSE)
  /\ Failed(DefaultOnInput)
  /\ out.ran = <<"f">> /\ Len(backend) = 1

(***************************************************************************)
(* Compiler and binder side by side: the builders that compile a WHERE     *)
(* clause, on one field of any shape and on batches of items.              *)
(***************************************************************************)
\* one field on the id column, alone or next to another item's id
IdInputs ==
  {[single |-> s, items |-> <<<<f>>>>] : s \in BOOLEAN, f \in FieldShapes("id")}
    \cup {[single |-> FALSE, items |-> << <<RawScalar("id", 1)>>, <<f>> >>] :
            f \in FieldShapes("id")}

InitBind == input \in (FieldInputs \cup IdInputs \cup BatchInputs) /\ InitCall

NextBind ==
  \/ SelectByColumnsSql(FieldSelectOptions)
  \/ DeleteByIdSql

SpecBind == InitBind /\ [][NextBind]_vars

\* the @placeholders of the statements' WHERE clauses (a select's ORDER BY
\* and OFFSET/FETCH clauses hold none)
FragPlaceholders(frag) == UNION {SeqSet(frag.ph[l]) : l \in 1..Len(frag.ph)}

PlaceholdersOf(statements) ==
  UNION {UNION {UNION {FragPlaceholders(statements[s].where[g][c]) :
                         c \in 1..Len(statements[s].where[g])} :
                  g \in 1..Len(statements[s].where)} :
           s \in 1..Len(statements)}

\* C24: every QueryType that selectByColumnsSql or deleteByIdSql returns has
\* the same set of names as @placeholders in its SQL text and as keys of its
\* params, whatever the operator and the shape of the value.
C24_PlaceholdersAreParamKeys ==
  (call \in {"select", "delete"} /\ Succeeded)
    => PlaceholdersOf(out.statements) = DOMAIN out.params

\* a NOT IN list over two chunks, compiled and bound under the same names
C24_Witness ==
  /\ call = "select" /\ Succeeded /\ opts.inChunkSize = 1
  /\ \E g \in 1..Len(out.statements[1].where) :
       \E c \in 1..Len(out.statements[1].where[g]) :
          LET frag == out.statements[1].where[g][c]
          IN frag.kind = "inList" /\ frag.op = "NOT IN" /\ Len(frag.ph) = 2
  /\ DOMAIN out.params = {"a_0_0_0", "a_0_1_0"}
  /\ PlaceholdersOf(out.statements) = DOMAIN out.params

(***************************************************************************)
(* The builders that write VALUES rows, on one field of any shape and on   *)
(* batches of items.                                                       *)
(***************************************************************************)
InitValues == input \in (FieldInputs \cup BatchInputs) /\ InitCall

NextValues ==
  \/ InsertSql
  \/ UpdateByKeySql

SpecValues == InitValues /\ [][NextValues]_vars

\* the @placeholders of the statements' VALUES rows
RowPlaceholdersOf(statements) ==
  UNION {UNION {SeqSet(statements[s].rows[k].ph) : k \in 1..Len(statements[s].rows)} :
           s \in 1..Len(statements)}

\* C25: every QueryType that insertSql or updateByKeySql returns has a bound
\* parameter for every @placeholder of its VALUES rows and a placeholder for
\* every bound parameter, whatever shape the field values have.
C25_RowPlaceholdersAreParamKeys ==
  (call \in {"insert", "update"} /\ Succeeded)
    => RowPlaceholdersOf(out.statements) = DOMAIN out.params

(***************************************************************************)
(* C26: for a non-empty array A with operator != and every chunk size the  *)
(* compiled predicate is the negation of the one compiled for the default  *)
(* = operator on the same A: it holds exactly for the column values equal  *)
(* to no element of A, also when A spans more than one chunk.              *)
(***************************************************************************)
NotEqualArrayField ==
  OneField /\ TheField.isArr /\ Len(TheField.vals) > 0 /\ FieldOperator(TheField) = "!="

C26_NotEqualArrayNegatesEqual ==
  (NotEqualArrayField /\ call = "select" /\ Succeeded) =>
    LET eq == selectByColumnsSql(TableName, TableColumns, WithOperator("="), opts)
    IN \A v \in Values :
         /\ Holds(CompiledFragment, out.params, RowOf(v))
              <=> \A k \in 1..Len(TheField.vals) : TheField.vals[k] # v
         /\ Holds(CompiledFragment, out.params, RowOf(v))
              <=> ~Holds(eq.statements[1].where[1][1], eq.params, RowOf(v))

(***************************************************************************)
(* C27: deleteByIdSql returns one DELETE whose WHERE clause is an [id] IN   *)
(* list over exactly the id values the items supply, or 1=0 when no item   *)
(* supplies one; never a DELETE without WHERE, 1=1, NOT IN or IS [NOT]     *)
(* NULL, whatever operators and other fields the items carry.  An id given *)
(* as a FieldQuery object is one value of the list, its operator unread.   *)
(***************************************************************************)
\* the id values of the input: the elements of an array, a scalar, a
\* FieldQuery object as it stands
SuppliedIds ==
  LET items == EnsureArray(input)
  IN UNION {IF ~HasKey(items[i], "id") THEN {}
            ELSE LET f == ItemField(items[i], "id")
                 IN IF f.fq THEN {ObjectRef(i)}
                    ELSE IF f.isArr THEN SeqSet(f.vals)
                    ELSE IF f.vals[1] = Nil THEN {} ELSE {f.vals[1]} :
            i \in 1..Len(items)}

DeleteWhere == out.statements[1].where

C27_DeleteRestrictedToSuppliedIds ==
  (call = "delete") =>
    /\ Succeeded
    /\ Len(out.statements) = 1 /\ out.statements[1].kind = "delete"
    /\ Len(DeleteWhere) = 1 /\ Len(DeleteWhere[1]) = 1
    /\ LET frag == DeleteWhere[1][1]
       IN IF SuppliedIds = {}
            THEN frag = AlwaysFalse /\ out.params = NoParams
            ELSE /\ frag.kind = "inList" /\ frag.col = "id" /\ frag.op = "IN"
                 /\ frag.glue = "OR"
                 /\ FragPlaceholders(frag) = DOMAIN out.params
                 /\ {out.params[n].value : n \in DOMAIN out.params} = SuppliedIds
                 /\ \A n \in DOMAIN out.params : out.params[n].key = "id"

\* items with operators and other fields, ids in two chunks
C27_Witness ==
  /\ call = "delete" /\ opts.inChunkSize = 1
  /\ \E i \in 1..Len(input.items) : \E j \in 1..Len(input.items[i]) :
       input.items[i][j].key = "a" /\ input.items[i][j].operator = "BETWEEN"
  /\ SuppliedIds = {1, 2}
  /\ Len(DeleteWhere[1][1].ph) = 2

\* an id given as a FieldQuery with a negated operator: still an IN list
C27_OperatorOnIdWitness ==
  /\ call = "delete"
  /\ input.items = << <<Field("id", TRUE, "NOT IN", TRUE, <<1, 2>>)>> >>
  /\ DeleteWhere[1][1].op = "IN" /\ Cardinality(DOMAIN out.params) = 1

(***************************************************************************)
(* insert and update of an object with the constructor's hooks, on items   *)
(* that carry a column the entity does not have.                           *)
(***************************************************************************)
ColumnItems ==
  DaoItems \cup {<<RawScalar("id", 1), RawArray("zz", <<>>)>>,
                  <<RawScalar("id", 1), RawArray("zz", <<1>>)>>}

ColumnInputs ==
  {[single |-> FALSE, items |-> its] :
     its \in UNION {[1..n -> ColumnItems] : n \in 0..MaxBatch}}
    \cup {[single |-> TRUE, items |-> <<it>>] : it \in ColumnItems}

InitColumns == input \in ColumnInputs /\ InitCall

NextColumns ==
  \/ DaoInsert
  \/ DaoUpdate

SpecColumns == InitColumns /\ [][NextColumns]_vars

\* the column names written into the text of the statements: the column
\* list, the placeholders of the VALUES rows, the SET list of a MERGE
InterpolatedColumns(statements) ==
  UNION {SeqSet(statements[s].columns) \cup SeqSet(statements[s].setColumns) :
           s \in 1..Len(statements)}

\* C28: when insert or update of an object with the default before hook
\* reaches request.query, every column name in the text of the statement is
\* a column of the entity.
C28_ExecutedColumnsAreEntityColumns ==
  (call \in {"dao.insert", "dao.update"} /\ out.queried)
    => InterpolatedColumns(out.statements) \subseteq SeqSet(EntityColumns)

(***************************************************************************)
(* Direct getPool calls of two callers next to the events of the pool.     *)
(* sql.connect settles and the timer of the delay fires: every step a call *)
(* waits for is taken eventually.                                          *)
(***************************************************************************)
InitPool == input = [single |-> FALSE, items |-> <<>>] /\ InitCall

NextPool ==
  \/ \E c \in Callers : GetPool(c)
  \/ \E c \in Callers : ConnectResolves(c)
  \/ \E c \in Callers : ConnectRejects(c)
  \/ \E c \in Callers : DelayElapses(c)
  \/ \E c \in Callers : Settle(c)
  \/ PoolErrorEvent
  \/ PoolDisconnects

PoolFairness == \A c \in Callers : WF_vars(GetPoolStep(c))

SpecPool == InitPool /\ [][NextPool]_vars /\ PoolFairness

InGetPool(c) == proc[c].op = "getPool"

\* what holds of a getPool call at every moment: at most retries+1
\* attempts; a call that threw made retries+1 attempts and threw the
\* connection error; a call that returned holds a pool
GetPoolBounded ==
  \A c \in Callers :
    InGetPool(c) =>
      /\ proc[c].attempts <= proc[c].given + 1
      /\ proc[c].attempts + proc[c].retries <= proc[c].given + 1
      /\ proc[c].pc = "failed" =>
           proc[c].attempts = proc[c].given + 1 /\ proc[c].err = connectionError
      /\ proc[c].pc = "gotPool" => proc[c].ret # NoPool /\ proc[c].err = NoFailure

\* what holds of every step of a getPool call
GetPoolStepwise ==
  \A c \in Callers :
    \* entry: a connected stored pool is returned without an attempt,
    \* otherwise the first attempt is made
    /\ (proc[c].op = "none" /\ proc'[c].op = "getPool") =>
          IF pool # NoPool /\ connected
            THEN /\ proc'[c].pc = "gotPool" /\ proc'[c].ret = pool
                 /\ proc'[c].attempts = 0 /\ pool' = pool
            ELSE proc'[c].pc = "connecting" /\ proc'[c].attempts = 1
    \* an attempt that succeeds ends the call with the pool of that
    \* attempt, which is the stored, connected pool from then on
    /\ (InGetPool(c) /\ proc[c].pc = "connecting" /\ proc'[c].pc = "gotPool") =>
          /\ proc'[c].ret = pool' /\ connected' /\ proc'[c].attempts = proc[c].attempts
    \* after the delay the stored pool is looked at again
    /\ (InGetPool(c) /\ proc[c].pc = "delay" /\ proc'[c].pc = "gotPool") =>
          /\ pool # NoPool /\ connected /\ proc'[c].ret = pool
    \* a returned or thrown outcome does not change
    /\ (InGetPool(c) /\ proc[c].pc = "gotPool" /\ InGetPool(c)') =>
          proc'[c].ret = proc[c].ret /\ proc'[c].pc = "gotPool"
    \* the throw resets the stored pool
    /\ (InGetPool(c) /\ proc[c].pc # "failed" /\ proc'[c].pc = "failed") =>
          pool' = NoPool

\* every getPool call returns or throws
GetPoolTerminates ==
  \A c \in Callers : InGetPool(c) ~> (proc[c].pc \in {"gotPool", "failed"})

\* C29: getPool(retries) always terminates; without a connected pool it
\* makes at most retries+1 connection attempts and returns the pool of the
\* attempt that succeeds, which later calls get while it is connected; after
\* retries+1 failed attempts it throws the connection error with the stored
\* pool reset to null; with a connected pool it returns that pool without
\* an attempt.
C29_GetPoolTerminatesWithinRetries ==
  /\ []GetPoolBounded
  /\ [][GetPoolStepwise]_vars
  /\ GetPoolTerminates

\* one caller has thrown after three failed attempts; the other got the
\* pool of its second attempt
C29_Witness ==
  /\ InGetPool("c1") /\ proc["c1"].pc = "failed"
  /\ proc["c1"].given = MaxRetries /\ proc["c1"].attempts = MaxRetries + 1
  /\ InGetPool("c2") /\ proc["c2"].pc = "gotPool" /\ proc["c2"].attempts = 2
  /\ pool = proc["c2"].ret /\ connected

\* a call that found the connected pool of an earlier call
C29_ReuseWitness ==
  /\ InGetPool("c1") /\ proc["c1"].pc = "gotPool" /\ proc["c1"].attempts = 1
  /\ InGetPool("c2") /\ proc["c2"].pc = "gotPool" /\ proc["c2"].attempts = 0
  /\ proc["c2"].ret = proc["c1"].ret

(***************************************************************************)
(* Database.withTransaction (src/src/lib/db.ts 89-104), step by step.  The *)
(* outcomes of begin, of the callback, of commit and of rollback are the   *)
(* library's and the caller's: each may resolve or reject.                 *)
(***************************************************************************)
\* line 90: const pool = await this.getPool()
WithTransaction(c) == StartCall(c, "withTransaction", DEFAULT_RETRIES)

InTransaction(c) == proc[c].op = "withTransaction"

\* line 90: getPool threw; nothing catches it
TxPoolFailed(c) ==
  /\ InTransaction(c) /\ proc[c].pc = "failed"
  /\ proc' = [proc EXCEPT ![c].pc = "rejected"]
  /\ UNCHANGED <<pool, connected>>
  /\ DatabaseOnly

\* lines 91-94: new sql.Transaction(pool); await transaction.begin() settles:
\* the callback is called with the transaction, or the catch block calls
\* rollback
TxBegin(c) ==
  /\ InTransaction(c) /\ proc[c].pc = "gotPool"
  /\ \/ proc' = [proc EXCEPT ![c].pc = "callback",
                              ![c].events = @ \cup {"begin ok", "callback called"}]
     \/ proc' = [proc EXCEPT ![c].pc = "rollback", ![c].err = "begin",
                              ![c].events = @ \cup {"begin failed", "rollback called"}]
  /\ UNCHANGED <<pool, connected>>
  /\ DatabaseOnly

\* lines 95-96: the callback settles: commit is called, or the catch block
\* calls rollback
TxCallback(c) ==
  /\ InTransaction(c) /\ proc[c].pc = "callback"
  /\ \/ proc' = [proc EXCEPT ![c].pc = "commit", ![c].response = <<"result">>,
                              ![c].events = @ \cup {"callback ok", "commit called"}]
     \/ proc' = [proc EXCEPT ![c].pc = "rollback", ![c].err = "callback",
                              ![c].events = @ \cup {"callback failed", "rollback called"}]
  /\ UNCHANGED <<pool, connected>>
  /\ DatabaseOnly

\* lines 96-98: commit settles: the result is returned, or the catch block
\* calls rollback
TxCommit(c) ==
  /\ InTransaction(c) /\ proc[c].pc = "commit"
  /\ \/ proc' = [proc EXCEPT ![c].pc = "returned", ![c].events = @ \cup {"commit ok"}]
     \/ proc' = [proc EXCEPT ![c].pc = "rollback", ![c].err = "commit",
                              ![c].response = <<>>,
                              ![c].events = @ \cup {"commit failed", "rollback called"}]
  /\ UNCHANGED <<pool, connected>>
  /\ DatabaseOnly

\* lines 99-103: await transaction.rollback() settles: err is thrown, or the
\* rejection of rollback leaves the catch block in its place
TxRollback(c) ==
  /\ InTransaction(c) /\ proc[c].pc = "rollback"
  /\ \/ proc' = [proc EXCEPT ![c].pc = "rejected", ![c].events = @ \cup {"rollback ok"}]
     \/ proc' = [proc EXCEPT ![c].pc = "rejected", ![c].err = "rollback",
                              ![c].events = @ \cup {"rollback failed"}]
  /\ UNCHANGED <<pool, connected>>
  /\ DatabaseOnly

InitTx == input = [single |-> FALSE, items |-> <<>>] /\ InitCall

\* one caller runs transactions while the other calls getPool
TxCallers == {"c1"}

NextTx ==
  \/ \E c \in TxCallers : WithTransaction(c)
  \/ \E c \in Callers \ TxCallers : GetPool(c)
  \/ \E c \in Callers : ConnectResolves(c)
  \/ \E c \in Callers : ConnectRejects(c)
  \/ \E c \in Callers : DelayElapses(c)
  \/ \E c \in Callers : TxPoolFailed(c)
  \/ \E c \in Callers : TxBegin(c)
  \/ \E c \in Callers : TxCallback(c)
  \/ \E c \in Callers : TxCommit(c)
  \/ \E c \in Callers : TxRollback(c)
  \/ \E c \in Callers : Settle(c)
  \/ PoolErrorEvent
  \/ PoolDisconnects

SpecTx == InitTx /\ [][NextTx]_vars

\* the error the caller receives is the one that made the call fail
CauseRethrown(c) ==
  \/ "begin failed" \in proc[c].events /\ proc[c].err = "begin"
  \/ "callback failed" \in proc[c].events /\ proc[c].err = "callback"
  \/ "commit failed" \in proc[c].events /\ proc[c].err = "commit"
  \/ proc[c].events = {} /\ proc[c].err = connectionError

\* C30: in withTransaction begin precedes the callback; commit is issued
\* exactly when the callback resolves and the callback's result is returned
\* when it succeeds; when the callback or the commit fails rollback is issued
\* and the error that caused the failure is rethrown; rollback is issued only
\* on a transaction whose begin succeeded; no transaction is both committed
\* and rolled back.
C30_TransactionBracketsCallback ==
  \A c \in Callers :
    InTransaction(c) =>
      LET ev == proc[c].events
      IN /\ "callback called" \in ev => "begin ok" \in ev
         /\ "commit called" \in ev <=> "callback ok" \in ev
         /\ proc[c].pc = "returned" <=> "commit ok" \in ev
         /\ proc[c].pc = "returned" => proc[c].response = <<"result">>
         /\ ("callback failed" \in ev \/ "commit failed" \in ev) => "rollback called" \in ev
         /\ proc[c].pc = "rejected" => CauseRethrown(c)
         /\ "rollback called" \in ev => "begin ok" \in ev
         /\ ~("commit ok" \in ev /\ "rollback ok" \in ev)

====
